---- MODULE Spec2Model ----
(***************************************************************************)
(* SIMRS inpatient admission: the patient store, the room store and the    *)
(* UI handlers that drive them (admission form, discharge, delete, room    *)
(* dialog).  A patient or room record is a function from field names to    *)
(* values, as a JavaScript object is; only the fields the handlers read or *)
(* write are kept (id, noRM, nomorRegistrasi, nik, nomorBed, status,       *)
(* tanggalJamMasuk, registrationDate, tanggalKeluar; id, roomNumber,       *)
(* status).  createdAt/updatedAt and the descriptive fields are never read *)
(* by a handler and are left out.                                          *)
(***************************************************************************)
EXTENDS Integers, Sequences, FiniteSets, TLC

VARIABLES
    patients,           \* PatientStore.patients
    userAddedPatients,  \* PatientStore.userAddedPatients (persisted by partialize)
    isLoaded,           \* PatientStore.isLoaded
    isLoading,          \* PatientStore.isLoading (a fetchMockPatients is pending)
    rooms,              \* RoomStore.rooms
    userAddedRooms,     \* RoomStore.userAddedRooms (persisted by partialize)
    roomsIsLoaded,      \* RoomStore.isLoaded
    roomsIsLoading,     \* RoomStore.isLoading (a fetchMockRooms is pending)
    nextId,             \* number of patient ids generateId has produced
    nextRoomId,         \* number of room ids generateId has produced
    issued,             \* history: highest noRM / nomorRegistrasi suffix handed out
    inflight,           \* calls at their await: saveFile, fetchMockPatients
    storedPatients,     \* localStorage 'simrs-patient-storage': the persisted userAddedPatients
    storedRooms,        \* localStorage 'simrs-room-storage': the persisted userAddedRooms
    storageFull,        \* localStorage.setItem throws QuotaExceededError
    form,               \* AdmissionForm: <<values>> while mounted on the create route
    draft,              \* localStorage 'admission-form-draft': <<values>> when saved
    storedFiles,        \* localStorage 'simrs_file_<id>': the ids of the stored files
    last                \* the last handler that ran: its name, target, result

vars == <<patients, userAddedPatients, isLoaded, isLoading,
          rooms, userAddedRooms, roomsIsLoaded, roomsIsLoading,
          nextId, nextRoomId, issued, inflight, storedPatients, storedRooms,
          storageFull, form, draft, storedFiles, last>>

patientVars == <<patients, userAddedPatients, isLoaded, isLoading, nextId, issued,
                 inflight, storedPatients>>
roomVars == <<rooms, userAddedRooms, roomsIsLoaded, roomsIsLoading, nextRoomId, storedRooms>>

----------------------------------------------------------------------------
(* Bounds and input domains *)

MaxId == 2          \* patients created in one behaviour
MaxRoomId == 1      \* rooms created in one behaviour
MaxNik == 2         \* distinct NIK values a form may carry
MaxTime == 2        \* distinct admission timestamps; Now is the latest

NIKs == 1..MaxNik
Times == 1..MaxTime
Now == MaxTime
RoomNumbers == {"101", "102"}
RoomStatuses == {"Tersedia", "Terisi", "Maintenance", "Reservasi"}
CurrentYear == 2026  \* new Date().getFullYear()
MockYear == 2026     \* the year the fixture generator writes into noRM
NoId == <<"none", 0>>

----------------------------------------------------------------------------
(* Sequence helpers (Array.prototype.map / filter / find / some) *)

Range(s) == {s[i] : i \in 1..Len(s)}

Max(a, b) == IF a >= b THEN a ELSE b

RECURSIVE SeqFilter(_, _)
SeqFilter(s, keep) ==
    IF s = <<>> THEN <<>>
    ELSE IF Head(s) \in keep THEN <<Head(s)>> \o SeqFilter(Tail(s), keep)
         ELSE SeqFilter(Tail(s), keep)

\* s.filter(x => x.id !== id)
RemoveId(s, id) == SeqFilter(s, {x \in Range(s) : x.id # id})

\* {...a, ...b}: the keys of both, b's value where both have the key
Spread(a, b) ==
    [k \in (DOMAIN a) \cup (DOMAIN b) |-> IF k \in DOMAIN b THEN b[k] ELSE a[k]]

\* s.find(pred): first element in the set sat, or NoId's carrier "undefined"
Undefined == [id |-> NoId]
Find(s, sat) ==
    IF \E i \in 1..Len(s) : s[i] \in sat
    THEN s[CHOOSE i \in 1..Len(s) : s[i] \in sat /\ \A j \in 1..(i-1) : s[j] \notin sat]
    ELSE Undefined

RemoveAt(s, i) == [j \in 1..(Len(s) - 1) |-> IF j < i THEN s[j] ELSE s[j + 1]]

\* [...s].sort((a, b) => time(b) - time(a)): stable, newest first
RECURSIVE InsertByTime(_, _)
InsertByTime(sorted, x) ==
    IF sorted = <<>> THEN <<x>>
    ELSE IF Head(sorted).tanggalJamMasuk >= x.tanggalJamMasuk
         THEN <<Head(sorted)>> \o InsertByTime(Tail(sorted), x)
         ELSE <<x>> \o sorted

RECURSIVE SortByTanggalJamMasuk(_)
SortByTanggalJamMasuk(s) ==
    IF s = <<>> THEN <<>>
    ELSE InsertByTime(SortByTanggalJamMasuk(SubSeq(s, 1, Len(s) - 1)), s[Len(s)])

----------------------------------------------------------------------------
(* Record numbers: "RM-<year>-<5 digits>" and "REG-<year>-<5 digits>" are  *)
(* kept as prefix, year and the digit string of the suffix.                *)

RECURSIVE ToDigits(_)
ToDigits(n) == IF n < 10 THEN <<n>> ELSE ToDigits(n \div 10) \o <<n % 10>>

RECURSIVE PadStart(_, _)
PadStart(digits, width) ==
    IF Len(digits) >= width THEN digits ELSE PadStart(<<0>> \o digits, width)

RECURSIVE ParseInt(_)
ParseInt(digits) ==
    IF digits = <<>> THEN 0
    ELSE 10 * ParseInt(SubSeq(digits, 1, Len(digits) - 1)) + digits[Len(digits)]

RECURSIVE MaxNumber(_, _, _)
MaxNumber(existing, prefix, year) ==
    IF existing = <<>> THEN 0
    ELSE LET rest == MaxNumber(Tail(existing), prefix, year)
             h == Head(existing)
         IN IF h.prefix = prefix /\ h.year = year /\ ParseInt(h.digits) > rest
            THEN ParseInt(h.digits) ELSE rest

\* variant: the increment of maxNumber is left out
generateNoRM_NoIncrement(existingNoRMs) ==
    [prefix |-> "RM", year |-> CurrentYear,
     digits |-> PadStart(ToDigits(MaxNumber(existingNoRMs, "RM", CurrentYear)), 5)]

generateNoRM(existingNoRMs) ==
    [prefix |-> "RM", year |-> CurrentYear,
     digits |-> PadStart(ToDigits(MaxNumber(existingNoRMs, "RM", CurrentYear) + 1), 5)]

generateNomorRegistrasi(existingNomorRegistrasi) ==
    [prefix |-> "REG", year |-> CurrentYear,
     digits |-> PadStart(ToDigits(MaxNumber(existingNomorRegistrasi, "REG", CurrentYear) + 1), 5)]

\* generateId: a value no earlier call returned
generateId(n) == <<"gen", n>>
generateRoomId(n) == <<"room", n>>

NoRMsOf(ps) == [i \in 1..Len(ps) |-> ps[i].noRM]
NomorRegistrasiOf(ps) == [i \in 1..Len(ps) |-> ps[i].nomorRegistrasi]

----------------------------------------------------------------------------
(* Fixtures: /mock-data/patients.json and /mock-data/rooms.json, as the    *)
(* generator script writes them (first patient, one occupied and one free *)
(* room).                                                                 *)

MockPatients ==
    << [id |-> <<"mock", 1>>,
        noRM |-> [prefix |-> "RM", year |-> MockYear, digits |-> PadStart(ToDigits(1), 5)],
        nomorRegistrasi |-> [prefix |-> "REG", year |-> MockYear, digits |-> PadStart(ToDigits(1), 5)],
        nik |-> 1, nomorBed |-> "101", status |-> "Aktif",
        tanggalJamMasuk |-> 1, registrationDate |-> 1] >>

MockRooms ==
    << [id |-> <<"mock", 1>>, roomNumber |-> "101", status |-> "Terisi"],
       [id |-> <<"mock", 2>>, roomNumber |-> "102", status |-> "Tersedia"] >>

\* PatientFormData as the handlers use it
FormData == [nik : NIKs, nomorBed : RoomNumbers, tanggalJamMasuk : Times]

----------------------------------------------------------------------------
(* Patient store *)

getPatientById(ps, id) == Find(ps, {p \in Range(ps) : p.id = id})
getPatientByNIK(ps, nik) == Find(ps, {p \in Range(ps) : p.nik = nik})

\* the file ids a record refers to: its fileSuratRujukan when it has one
FileOf(patient) ==
    IF patient # Undefined /\ "fileSuratRujukan" \in DOMAIN patient
    THEN {patient.fileSuratRujukan} ELSE {}

\* addPatient: the record built from the form data and the current patients
NewPatient(ps, patientData, n) ==
    Spread(patientData,
           [id |-> generateId(n),
            noRM |-> generateNoRM(NoRMsOf(ps)),
            nomorRegistrasi |-> generateNomorRegistrasi(NomorRegistrasiOf(ps)),
            status |-> "Aktif",
            registrationDate |-> Now])

\* variant: noRM is not restored after the spread of the payload
UpdatedPatient_NoRMFromPayload(patient, updates) ==
    Spread(Spread(patient, updates),
           [id |-> patient.id,
            nomorRegistrasi |-> patient.nomorRegistrasi,
            registrationDate |-> patient.registrationDate])

\* updatePatient: the merged record, identity fields taken from the old one
UpdatedPatient(patient, updates) ==
    Spread(Spread(patient, updates),
           [id |-> patient.id,
            noRM |-> patient.noRM,
            nomorRegistrasi |-> patient.nomorRegistrasi,
            registrationDate |-> patient.registrationDate])

\* updatePatient: state.patients.map(...) followed by the conditional re-sort
UpdatePatients(ps, id, updates) ==
    LET mapped == [i \in 1..Len(ps) |->
                     IF ps[i].id = id THEN UpdatedPatient(ps[i], updates) ELSE ps[i]]
    IN IF "tanggalJamMasuk" \in DOMAIN updates
       THEN SortByTanggalJamMasuk(mapped) ELSE mapped

\* updatePatient: the value of updatedPatient after the map (last match wins)
UpdatedResult(ps, id, updates) ==
    LET hits == {i \in 1..Len(ps) : ps[i].id = id}
    IN IF hits = {} THEN Undefined
       ELSE UpdatedPatient(ps[CHOOSE i \in hits : \A j \in hits : j <= i], updates)

\* variant: the updated record is added when userAddedPatients lacks it
UpdateUserAdded_Upsert(ups, ps, id, updates) ==
    LET res == UpdatedResult(ps, id, updates)
        mapped == [i \in 1..Len(ups) |->
                     IF ups[i].id = id /\ res # Undefined THEN res ELSE ups[i]]
    IN IF res # Undefined /\ \A i \in 1..Len(ups) : ups[i].id # id
       THEN Append(mapped, res) ELSE mapped

\* updatePatient: state.userAddedPatients.map(...)
UpdateUserAdded(ups, ps, id, updates) ==
    LET res == UpdatedResult(ps, id, updates)
    IN [i \in 1..Len(ups) |->
          IF ups[i].id = id /\ res # Undefined THEN res ELSE ups[i]]

\* dischargePatient: state.patients.map(...)
DischargePatients(ps, id, tanggalKeluar) ==
    [i \in 1..Len(ps) |->
       IF ps[i].id = id
       THEN Spread(ps[i], [status |-> "Keluar", tanggalKeluar |-> tanggalKeluar])
       ELSE ps[i]]

\* dischargePatient: what set(...) leaves in userAddedPatients
DischargeUserAdded(ups, id, tanggalKeluar) == ups

\* variant: the value is stored although setItem threw
Persisted_WritesAnyway(stored, userAdded) == userAdded

\* persist: every set(...) is followed by customStorage.setItem of the
\* partialized state; setItem throws when the storage is full and the
\* stored value stays as it was
Persisted(stored, userAdded) == IF storageFull THEN stored ELSE userAdded

addPatient(patientData) ==
    /\ nextId < MaxId
    /\ LET newPatient == NewPatient(patients, patientData, nextId + 1)
       IN /\ patients' = SortByTanggalJamMasuk(Append(patients, newPatient))
          /\ userAddedPatients' = Append(userAddedPatients, newPatient)
          /\ issued' = [rm |-> Max(issued.rm, ParseInt(newPatient.noRM.digits)),
                        reg |-> Max(issued.reg, ParseInt(newPatient.nomorRegistrasi.digits))]
    /\ nextId' = nextId + 1
    /\ storedPatients' = Persisted(storedPatients, userAddedPatients')
    /\ UNCHANGED <<isLoaded, isLoading, inflight>>

updatePatient(id, updates) ==
    /\ patients' = UpdatePatients(patients, id, updates)
    /\ userAddedPatients' = UpdateUserAdded(userAddedPatients, patients, id, updates)
    /\ storedPatients' = Persisted(storedPatients, userAddedPatients')
    /\ UNCHANGED <<isLoaded, isLoading, nextId, issued, inflight>>

deletePatient(id) ==
    /\ IF getPatientById(patients, id) = Undefined
       THEN UNCHANGED <<patients, userAddedPatients, storedPatients>>
       ELSE /\ patients' = RemoveId(patients, id)
            /\ userAddedPatients' = RemoveId(userAddedPatients, id)
            /\ storedPatients' = Persisted(storedPatients, userAddedPatients')
    /\ UNCHANGED <<isLoaded, isLoading, nextId, issued, inflight>>

dischargePatient(id, tanggalKeluar) ==
    /\ patients' = DischargePatients(patients, id, tanggalKeluar)
    /\ userAddedPatients' = DischargeUserAdded(userAddedPatients, id, tanggalKeluar)
    /\ storedPatients' = Persisted(storedPatients, userAddedPatients')
    /\ UNCHANGED <<isLoaded, isLoading, nextId, issued, inflight>>

\* variant: a call made while a load is pending fetches as well
loadMockData_NoLoadingGuard ==
    /\ ~(isLoaded /\ Len(patients) > 0)
    /\ isLoading' = TRUE
    /\ inflight' = Append(inflight, [op |-> "fetchMockPatients"])
    /\ storedPatients' = Persisted(storedPatients, userAddedPatients)
    /\ UNCHANGED <<patients, userAddedPatients, isLoaded, nextId, issued>>

\* loadMockData up to the await: the two early returns, then set({isLoading: true})
loadMockData ==
    /\ ~isLoading
    /\ ~(isLoaded /\ Len(patients) > 0)
    /\ isLoading' = TRUE
    /\ inflight' = Append(inflight, [op |-> "fetchMockPatients"])
    /\ storedPatients' = Persisted(storedPatients, userAddedPatients)
    /\ UNCHANGED <<patients, userAddedPatients, isLoaded, nextId, issued>>

\* the calls of loadMockData that are at `await fetchMockPatients()`
PendingFetches == {i \in 1..Len(inflight) : inflight[i].op = "fetchMockPatients"}

\* one of them goes on: its fetch has settled
FetchSettled ==
    /\ PendingFetches # {}
    /\ inflight' = RemoveAt(inflight, CHOOSE i \in PendingFetches : TRUE)

\* loadMockData after fetchMockPatients resolved
loadMockDataResolved ==
    /\ FetchSettled
    /\ patients' = SortByTanggalJamMasuk(MockPatients \o userAddedPatients)
    /\ isLoaded' = TRUE
    /\ isLoading' = FALSE
    /\ storedPatients' = Persisted(storedPatients, userAddedPatients)
    /\ UNCHANGED <<userAddedPatients, nextId, issued>>

\* variant: the catch branch falls back to an empty list
loadMockDataRejected_DropsUserAdded ==
    /\ FetchSettled
    /\ patients' = <<>>
    /\ isLoaded' = TRUE
    /\ isLoading' = FALSE
    /\ storedPatients' = Persisted(storedPatients, userAddedPatients)
    /\ UNCHANGED <<userAddedPatients, nextId, issued>>

\* loadMockData after fetchMockPatients rejected: the catch branch
loadMockDataRejected ==
    /\ FetchSettled
    /\ patients' = userAddedPatients
    /\ isLoaded' = TRUE
    /\ isLoading' = FALSE
    /\ storedPatients' = Persisted(storedPatients, userAddedPatients)
    /\ UNCHANGED <<userAddedPatients, nextId, issued>>

----------------------------------------------------------------------------
(* Room store *)

\* RoomFormData as the handlers use it
RoomFormData == [roomNumber : RoomNumbers, status : RoomStatuses]

getRoomById(rs, id) == Find(rs, {r \in Range(rs) : r.id = id})

\* variant: the status of the room is not looked at
canDeleteRoom_AnyStatus(rs, id) == getRoomById(rs, id) # Undefined

canDeleteRoom(rs, id) ==
    LET room == getRoomById(rs, id)
    IN IF room = Undefined THEN FALSE ELSE room.status # "Terisi"

\* variant: the room being edited is not excluded
isRoomNumberUnique_NoExclude(rs, roomNumber, excludeId) ==
    ~\E r \in Range(rs) : r.roomNumber = roomNumber

isRoomNumberUnique(rs, roomNumber, excludeId) ==
    ~\E r \in Range(rs) : r.roomNumber = roomNumber /\ r.id # excludeId

\* updateRoom: the merged record, id taken from the old one
UpdatedRoom(room, updates) == Spread(Spread(room, updates), [id |-> room.id])

\* updateRoom: state.rooms.map(...)
UpdateRooms(rs, id, updates) ==
    [i \in 1..Len(rs) |-> IF rs[i].id = id THEN UpdatedRoom(rs[i], updates) ELSE rs[i]]

\* updateRoom: state.userAddedRooms.map(...), updatedRoom set by the rooms map
UpdateUserAddedRooms(urs, rs, id, updates) ==
    LET hits == {i \in 1..Len(rs) : rs[i].id = id}
        res == IF hits = {} THEN Undefined
               ELSE UpdatedRoom(rs[CHOOSE i \in hits : \A j \in hits : j <= i], updates)
    IN [i \in 1..Len(urs) |-> IF urs[i].id = id /\ res # Undefined THEN res ELSE urs[i]]

\* the two lists set(...) writes, as one value
RoomState == [rooms |-> rooms, userAddedRooms |-> userAddedRooms]

\* updateRoom as a function of the store state
updateRoomState(st, id, updates) ==
    [rooms |-> UpdateRooms(st.rooms, id, updates),
     userAddedRooms |-> UpdateUserAddedRooms(st.userAddedRooms, st.rooms, id, updates)]

SetRoomState(st) ==
    /\ rooms' = st.rooms
    /\ userAddedRooms' = st.userAddedRooms
    /\ storedRooms' = Persisted(storedRooms, st.userAddedRooms)

addRoom(roomData) ==
    /\ nextRoomId < MaxRoomId
    /\ LET newRoom == Spread(roomData, [id |-> generateRoomId(nextRoomId + 1),
                                        status |-> roomData.status])
       IN /\ rooms' = Append(rooms, newRoom)
          /\ userAddedRooms' = Append(userAddedRooms, newRoom)
    /\ nextRoomId' = nextRoomId + 1
    /\ storedRooms' = Persisted(storedRooms, userAddedRooms')
    /\ UNCHANGED <<roomsIsLoaded, roomsIsLoading>>

updateRoom(id, updates) ==
    /\ SetRoomState(updateRoomState(RoomState, id, updates))
    /\ UNCHANGED <<roomsIsLoaded, roomsIsLoading, nextRoomId>>

deleteRoom(id) ==
    /\ IF getRoomById(rooms, id) = Undefined \/ ~canDeleteRoom(rooms, id)
       THEN UNCHANGED <<rooms, userAddedRooms, storedRooms>>
       ELSE /\ rooms' = RemoveId(rooms, id)
            /\ userAddedRooms' = RemoveId(userAddedRooms, id)
            /\ storedRooms' = Persisted(storedRooms, userAddedRooms')
    /\ UNCHANGED <<roomsIsLoaded, roomsIsLoading, nextRoomId>>

\* deleteRoom: the value returned
deleteRoomResult(rs, id) == getRoomById(rs, id) # Undefined /\ canDeleteRoom(rs, id)

\* loadMockData (rooms) up to the await
loadMockRooms ==
    /\ ~roomsIsLoading
    /\ ~(roomsIsLoaded /\ Len(rooms) > 0)
    /\ roomsIsLoading' = TRUE
    /\ storedRooms' = Persisted(storedRooms, userAddedRooms)
    /\ UNCHANGED <<rooms, userAddedRooms, roomsIsLoaded, nextRoomId>>

\* loadMockData (rooms) after fetchMockRooms resolved
loadMockRoomsResolved ==
    /\ roomsIsLoading
    /\ rooms' = MockRooms \o userAddedRooms
    /\ roomsIsLoaded' = TRUE
    /\ roomsIsLoading' = FALSE
    /\ storedRooms' = Persisted(storedRooms, userAddedRooms)
    /\ UNCHANGED <<userAddedRooms, nextRoomId>>

\* loadMockData (rooms) after fetchMockRooms rejected: the catch branch
loadMockRoomsRejected ==
    /\ roomsIsLoading
    /\ rooms' = userAddedRooms
    /\ roomsIsLoaded' = TRUE
    /\ roomsIsLoading' = FALSE
    /\ storedRooms' = Persisted(storedRooms, userAddedRooms)
    /\ UNCHANGED <<userAddedRooms, nextRoomId>>

----------------------------------------------------------------------------
(* Page reload: the in-memory state is rebuilt, the persisted subsets are  *)
(* hydrated from local storage, pending fetches belong to the old page.    *)

Reload ==
    /\ patients' = <<>>
    /\ isLoaded' = FALSE
    /\ isLoading' = FALSE
    /\ rooms' = <<>>
    /\ roomsIsLoaded' = FALSE
    /\ roomsIsLoading' = FALSE
    /\ userAddedPatients' = storedPatients
    /\ userAddedRooms' = storedRooms
    /\ inflight' = <<>>
    /\ form' = <<>>
    /\ last' = [op |-> "reload", id |-> NoId, ret |-> "ok", aux |-> 0, error |-> "none"]
    /\ UNCHANGED <<nextId, nextRoomId, issued, storedPatients, storedRooms, storageFull,
                   draft, storedFiles>>

----------------------------------------------------------------------------
Init ==
    /\ patients = <<>>
    /\ userAddedPatients = <<>>
    /\ isLoaded = FALSE
    /\ isLoading = FALSE
    /\ rooms = <<>>
    /\ userAddedRooms = <<>>
    /\ roomsIsLoaded = FALSE
    /\ roomsIsLoading = FALSE
    /\ nextId = 0
    /\ nextRoomId = 0
    /\ issued = [rm |-> 0, reg |-> 0]
    /\ inflight = <<>>
    /\ storedPatients = <<>>
    /\ storedRooms = <<>>
    /\ storageFull = FALSE
    /\ form = <<>>
    /\ draft = <<>>
    /\ storedFiles = {}
    /\ last = [op |-> "init", id |-> NoId, ret |-> "ok", aux |-> 0, error |-> "none"]

\* Form data of the store-level calls: the store reads only tanggalJamMasuk
StoreFormData == [nik : {MaxNik}, nomorBed : {"102"}, tanggalJamMasuk : Times]

\* Partial payloads a caller may pass to updatePatient
UpdatePayloads ==
    {[tanggalJamMasuk |-> Now],
     [nik |-> 1],
     [id |-> NoId],
     [noRM |-> [prefix |-> "RM", year |-> CurrentYear, digits |-> <<0, 0, 0, 0, 9>>],
      nomorRegistrasi |-> [prefix |-> "REG", year |-> CurrentYear, digits |-> <<0, 0, 0, 0, 9>>]],
     [registrationDate |-> 0, tanggalJamMasuk |-> 1]}

KnownIds == {p.id : p \in Range(patients)} \cup {p.id : p \in Range(userAddedPatients)}

\* The patient store driven through its public operations
\* a handler ran; no handler changes how full the storage is
Ran(op, id, ret, aux) ==
    /\ last' = [op |-> op, id |-> id, ret |-> ret, aux |-> aux, error |-> "none"]
    /\ UNCHANGED storageFull

\* a handler ran that leaves the admission form, its draft and the stored
\* files alone
Did(op, id, ret, aux) ==
    /\ Ran(op, id, ret, aux)
    /\ UNCHANGED <<form, draft, storedFiles>>

\* a store operation ran; when it called set(...) while the storage was full,
\* customStorage.setItem threw and the error left the operation
CompletedCall(setCalled, op, id, ret, aux) ==
    /\ IF storageFull /\ setCalled
       THEN /\ last' = [op |-> op, id |-> id, ret |-> "throws", aux |-> aux,
                        error |-> "QuotaExceededError"]
            /\ UNCHANGED storageFull
       ELSE Ran(op, id, ret, aux)
    /\ UNCHANGED <<form, draft>>

\* the same for an operation that leaves the stored files alone
Completed(setCalled, op, id, ret, aux) ==
    /\ CompletedCall(setCalled, op, id, ret, aux)
    /\ UNCHANGED storedFiles

Returned(found) == IF found = Undefined THEN "null" ELSE "patient"

AddPatientCall(forms) ==
    \E d \in forms :
        /\ addPatient(d)
        /\ Completed(TRUE, "addPatient", generateId(nextId + 1), "patient", 0)
        /\ UNCHANGED roomVars
StoreAddPatient == AddPatientCall(StoreFormData)
UpdatePatientCall(payloads) ==
    \E id \in KnownIds \cup {NoId}, u \in payloads :
        /\ updatePatient(id, u)
        /\ Completed(TRUE, "updatePatient", id,
                     Returned(UpdatedResult(patients, id, u)), DOMAIN u)
        /\ UNCHANGED roomVars
StoreUpdatePatient == UpdatePatientCall(UpdatePayloads)
StoreDeletePatient ==
    \E id \in KnownIds \cup {NoId} :
        /\ deletePatient(id)
        /\ storedFiles' = storedFiles \ FileOf(getPatientById(patients, id))
        /\ CompletedCall(getPatientById(patients, id) # Undefined, "deletePatient", id,
                         getPatientById(patients, id) # Undefined, 0)
        /\ UNCHANGED roomVars
StoreDischargePatient ==
    \E id \in KnownIds \cup {NoId} :
        /\ dischargePatient(id, Now)
        /\ Completed(TRUE, "dischargePatient", id,
                     Returned(getPatientById(patients, id)), 0)
        /\ UNCHANGED roomVars
StoreLoadMockData ==
    loadMockData /\ Did("loadMockData", NoId, "pending", 0) /\ UNCHANGED roomVars
StoreLoadResolved ==
    loadMockDataResolved /\ Did("loadMockData", NoId, "resolved", 0) /\ UNCHANGED roomVars
StoreLoadRejected ==
    loadMockDataRejected /\ Did("loadMockData", NoId, "rejected", 0) /\ UNCHANGED roomVars

\* addPatient and deletePatient calls around the mock-data load, one session
NextNumbering ==
    \/ StoreAddPatient
    \/ StoreDeletePatient
    \/ StoreLoadMockData
    \/ StoreLoadResolved
    \/ StoreLoadRejected

SpecNumbering == Init /\ [][NextNumbering]_vars

\* the same across page reloads
NextHydrate ==
    \/ StoreAddPatient
    \/ StoreDeletePatient
    \/ StoreLoadMockData
    \/ StoreLoadResolved
    \/ StoreLoadRejected
    \/ Reload

SpecHydrate == Init /\ [][NextHydrate]_vars

\* the four mutating patient operations
NextPatientStore ==
    \/ StoreAddPatient
    \/ StoreUpdatePatient
    \/ StoreDeletePatient
    \/ StoreDischargePatient

SpecPatientStore == Init /\ [][NextPatientStore]_vars

\* updatePatient on loaded and user-added records
NextUpdate ==
    \/ StoreAddPatient
    \/ StoreUpdatePatient
    \/ StoreLoadMockData
    \/ StoreLoadResolved
    \/ StoreLoadRejected

SpecUpdate == Init /\ [][NextUpdate]_vars

----------------------------------------------------------------------------
(* addPatient and updatePatient called with a referral file: the call      *)
(* awaits saveFile before it builds the record and calls set(...)          *)

MAX_FILE_SIZE == 5     \* megabytes
MaxInflight == 2       \* calls awaiting saveFile at one time
MaxFiles == 2          \* files the local storage has room for
RujukanFiles == [size : {MAX_FILE_SIZE, MAX_FILE_SIZE + 1}]

\* what the calls with a file carry
FileFormData == [nik : {MaxNik}, nomorBed : {"102"}, tanggalJamMasuk : {Now}]
FileUpdatePayloads == {[tanggalJamMasuk |-> 1, registrationDate |-> 0]}

\* addPatient: the record built from the numbers read before the await
NewPatientAfterAwait(call, n) ==
    Spread(call.payload,
           [id |-> generateId(n),
            noRM |-> generateNoRM(call.existingNoRMs),
            nomorRegistrasi |-> generateNomorRegistrasi(call.existingNomorRegistrasi),
            status |-> "Aktif",
            registrationDate |-> Now])

\* addPatient(patientData, rujukanFile) up to `await saveFile(rujukanFile)`
addPatientWithFile ==
    \E patientData \in FileFormData, file \in RujukanFiles :
        /\ file.size <= MAX_FILE_SIZE
        /\ Len(inflight) < MaxInflight
        /\ inflight' = Append(inflight,
               [op |-> "addPatient", id |-> NoId, payload |-> patientData,
                existingNoRMs |-> NoRMsOf(patients),
                existingNomorRegistrasi |-> NomorRegistrasiOf(patients)])
        /\ UNCHANGED <<patients, userAddedPatients, isLoaded, isLoading, nextId, issued,
                       storedPatients>>
        /\ Did("addPatient", NoId, "awaiting", 0)
        /\ UNCHANGED roomVars

\* updatePatient(id, updates, rujukanFile) up to `await saveFile(rujukanFile)`
updatePatientWithFile ==
    \E id \in KnownIds \cup {NoId}, updates \in FileUpdatePayloads, file \in RujukanFiles :
        /\ file.size <= MAX_FILE_SIZE
        /\ Len(inflight) < MaxInflight
        /\ inflight' = Append(inflight,
               [op |-> "updatePatient", id |-> id, payload |-> updates,
                existingNoRMs |-> <<>>, existingNomorRegistrasi |-> <<>>])
        /\ UNCHANGED <<patients, userAddedPatients, isLoaded, isLoading, nextId, issued,
                       storedPatients>>
        /\ Did("updatePatient", id, "awaiting", 0)
        /\ UNCHANGED roomVars

\* saveFile throws at once for a file above MAX_FILE_SIZE; the call rejects
saveFileTooLarge ==
    \E op \in {"addPatient", "updatePatient"}, id \in KnownIds \cup {NoId},
       file \in RujukanFiles :
        /\ file.size > MAX_FILE_SIZE
        /\ op = "addPatient" => id = NoId
        /\ UNCHANGED patientVars
        /\ Did(op, id, "throws", "size")
        /\ UNCHANGED roomVars

\* the id of saveFile's StoredFile: one that no stored file has
NewFileId(files) ==
    <<"file", CHOOSE n \in 1..(Cardinality(files) + 1) :
                  /\ <<"file", n>> \notin files
                  /\ \A m \in 1..(n - 1) : <<"file", m>> \in files>>

\* the rest of the call after saveFile resolved: the file is in the storage
\* under its new id; updatePatient then deletes the file of the record it
\* finds under the id; the record takes the new id as fileSuratRujukan
AfterSaveFile(i) ==
    LET call == inflight[i]
        storedFile == [id |-> NewFileId(storedFiles)]
        fileSuratRujukan == [fileSuratRujukan |-> storedFile.id]
    IN /\ Cardinality(storedFiles) < MaxFiles
       /\ inflight' = RemoveAt(inflight, i)
       /\ IF call.op = "addPatient"
          THEN /\ nextId < MaxId
               /\ storedFiles' = storedFiles \cup {storedFile.id}
               /\ LET newPatient == Spread(NewPatientAfterAwait(call, nextId + 1),
                                           fileSuratRujukan)
                  IN /\ patients' = SortByTanggalJamMasuk(Append(patients, newPatient))
                     /\ userAddedPatients' = Append(userAddedPatients, newPatient)
                     /\ issued' = [rm |-> Max(issued.rm, ParseInt(newPatient.noRM.digits)),
                                   reg |-> Max(issued.reg,
                                               ParseInt(newPatient.nomorRegistrasi.digits))]
               /\ nextId' = nextId + 1
               /\ Ran("addPatient", generateId(nextId + 1), "patient", "file")
          ELSE LET updates == Spread(call.payload, fileSuratRujukan)
               IN /\ storedFiles' = (storedFiles \cup {storedFile.id})
                                        \ FileOf(getPatientById(patients, call.id))
                  /\ patients' = UpdatePatients(patients, call.id, updates)
                  /\ userAddedPatients' =
                         UpdateUserAdded(userAddedPatients, patients, call.id, updates)
                  /\ UNCHANGED <<nextId, issued>>
                  /\ Ran("updatePatient", call.id,
                         Returned(UpdatedResult(patients, call.id, updates)), "file")
       /\ UNCHANGED <<form, draft>>
       /\ storedPatients' = Persisted(storedPatients, userAddedPatients')
       /\ UNCHANGED <<isLoaded, isLoading>>

\* variant: the failure is swallowed and the call goes on without the file
AfterSaveFileFailed_GoesOn(i, cause) ==
    /\ nextId < MaxId
    /\ inflight[i].op = "addPatient"
    /\ LET newPatient == NewPatientAfterAwait(inflight[i], nextId + 1)
       IN /\ patients' = SortByTanggalJamMasuk(Append(patients, newPatient))
          /\ userAddedPatients' = Append(userAddedPatients, newPatient)
    /\ nextId' = nextId + 1
    /\ inflight' = RemoveAt(inflight, i)
    /\ storedPatients' = Persisted(storedPatients, userAddedPatients')
    /\ UNCHANGED <<isLoaded, isLoading, issued>>
    /\ Did(inflight[i].op, inflight[i].id, "throws", cause)

\* saveFile rejected (read error, storage quota): the catch rethrows before set(...)
AfterSaveFileFailed(i, cause) ==
    /\ inflight' = RemoveAt(inflight, i)
    /\ UNCHANGED <<patients, userAddedPatients, isLoaded, isLoading, nextId, issued,
                   storedPatients>>
    /\ Did(inflight[i].op, inflight[i].id, "throws", cause)

saveFileResolved ==
    \E i \in (1..Len(inflight)) \ PendingFetches : AfterSaveFile(i) /\ UNCHANGED roomVars

saveFileRejected ==
    \E i \in (1..Len(inflight)) \ PendingFetches, cause \in {"read", "quota"} :
        AfterSaveFileFailed(i, cause) /\ UNCHANGED roomVars

\* calls with a referral file, overlapping or not, in one session
NextFiles ==
    \/ addPatientWithFile
    \/ updatePatientWithFile
    \/ saveFileTooLarge
    \/ saveFileResolved
    \/ saveFileRejected

SpecFiles == Init /\ [][NextFiles]_vars

----------------------------------------------------------------------------
(* The room store driven through its public operations *)

KnownRoomIds == {r.id : r \in Range(rooms)} \cup {r.id : r \in Range(userAddedRooms)}

AddRoomCall(forms) ==
    \E d \in forms :
        /\ addRoom(d)
        /\ Completed(TRUE, "addRoom", generateRoomId(nextRoomId + 1), "room", 0)
        /\ UNCHANGED patientVars
StoreAddRoom == AddRoomCall(RoomFormData)
UpdateRoomCall(payloads) ==
    \E id \in KnownRoomIds \cup {NoId}, u \in payloads :
        /\ updateRoom(id, u)
        /\ Completed(TRUE, "updateRoom", id,
                     IF getRoomById(rooms, id) = Undefined THEN "null" ELSE "room", 0)
        /\ UNCHANGED patientVars
StoreUpdateRoom ==
    UpdateRoomCall(RoomFormData \cup {[status |-> st] : st \in RoomStatuses})
StoreDeleteRoom ==
    \E id \in KnownRoomIds \cup {NoId} :
        /\ deleteRoom(id)
        /\ Completed(deleteRoomResult(rooms, id), "deleteRoom", id,
                     deleteRoomResult(rooms, id), 0)
        /\ UNCHANGED patientVars
StoreLoadMockRooms ==
    loadMockRooms /\ Did("loadMockRooms", NoId, "pending", 0) /\ UNCHANGED patientVars
StoreLoadRoomsResolved ==
    loadMockRoomsResolved /\ Did("loadMockRooms", NoId, "resolved", 0)
    /\ UNCHANGED patientVars
StoreLoadRoomsRejected ==
    loadMockRoomsRejected /\ Did("loadMockRooms", NoId, "rejected", 0)
    /\ UNCHANGED patientVars

NextRoomStore ==
    \/ StoreAddRoom
    \/ StoreUpdateRoom
    \/ StoreDeleteRoom
    \/ StoreLoadMockRooms
    \/ StoreLoadRoomsResolved
    \/ StoreLoadRoomsRejected

SpecRoomStore == Init /\ [][NextRoomStore]_vars

----------------------------------------------------------------------------
(* The two stores while local storage fills up and is freed again *)

\* the browser's quota is reached: every later setItem throws
StorageFills ==
    /\ ~storageFull
    /\ storageFull' = TRUE
    /\ last' = [op |-> "storage", id |-> NoId, ret |-> "full", aux |-> 0, error |-> "none"]
    /\ UNCHANGED <<patientVars, roomVars, form, draft, storedFiles>>

\* stored files were removed: setItem succeeds again
StorageFreed ==
    /\ storageFull
    /\ storageFull' = FALSE
    /\ last' = [op |-> "storage", id |-> NoId, ret |-> "freed", aux |-> 0, error |-> "none"]
    /\ UNCHANGED <<patientVars, roomVars, form, draft, storedFiles>>

\* the six mutating operations on a few inputs
AddPatientPlain == AddPatientCall(FileFormData)
UpdatePatientPlain == UpdatePatientCall({[nik |-> 1]})
AddRoomPlain == AddRoomCall({[roomNumber |-> "101", status |-> "Tersedia"]})
UpdateRoomPlain == UpdateRoomCall({[status |-> "Terisi"]})

NextStorage ==
    \/ AddPatientPlain
    \/ UpdatePatientPlain
    \/ StoreDeletePatient
    \/ AddRoomPlain
    \/ UpdateRoomPlain
    \/ StoreDeleteRoom
    \/ StorageFills
    \/ StorageFreed

SpecStorage == Init /\ [][NextStorage]_vars

\* a bed change, on loaded and on user-added records
UpdatePatientBed == UpdatePatientCall({[nomorBed |-> "102"]})

\* a store no page of this session has touched yet
PatientStoreIdle == patients = <<>> /\ ~isLoaded /\ ~isLoading

RoomStoreIdle == rooms = <<>> /\ ~roomsIsLoaded /\ ~roomsIsLoading

\* every operation of the two stores on loaded and on user-added records,
\* across page reloads; no store operation reads the other store, and a
\* session (from one reload to the next) works on one of the two
NextPersisted ==
    \/ RoomStoreIdle /\ AddPatientPlain
    \/ RoomStoreIdle /\ UpdatePatientBed
    \/ RoomStoreIdle /\ StoreDischargePatient
    \/ RoomStoreIdle /\ StoreDeletePatient
    \/ RoomStoreIdle /\ StoreLoadMockData
    \/ RoomStoreIdle /\ StoreLoadResolved
    \/ PatientStoreIdle /\ AddRoomPlain
    \/ PatientStoreIdle /\ UpdateRoomPlain
    \/ PatientStoreIdle /\ StoreDeleteRoom
    \/ PatientStoreIdle /\ StoreLoadMockRooms
    \/ PatientStoreIdle /\ StoreLoadRoomsResolved
    \/ Reload

SpecPersisted == Init /\ [][NextPersisted]_vars

----------------------------------------------------------------------------
(* UI handlers.  A handler reads the store as its last render saw it; the  *)
(* render follows every store change, so that is the current state.        *)

\* the admission form: tanggalJamMasuk keeps its default, new Date()
AdmissionFormData == [nik : NIKs, nomorBed : RoomNumbers, tanggalJamMasuk : {Now}]

\* variant: the status of the bed is not looked at
SelectedRoom_AnyStatus(rs, nomorBed) ==
    Find(rs, {r \in Range(rs) : r.roomNumber = nomorBed})

\* rooms.find(room => room.roomNumber === values.nomorBed && room.status === 'Tersedia')
SelectedRoom(rs, nomorBed) ==
    Find(rs, {r \in Range(rs) : r.roomNumber = nomorBed /\ r.status = "Tersedia"})

\* onSubmit (edit): free the old bed, occupy the new one
MoveBed(st, oldBed, selectedRoom) ==
    LET oldRoom == Find(st.rooms, {r \in Range(st.rooms) : r.roomNumber = oldBed})
        freed == IF oldRoom # Undefined
                 THEN updateRoomState(st, oldRoom.id, [status |-> "Tersedia"])
                 ELSE st
    IN updateRoomState(freed, selectedRoom.id, [status |-> "Terisi"])

\* variant: the old bed is freed before the new bed is checked
EditOutcome_FreeFirst(ps, st, editingPatient, values) ==
    LET selectedRoom == SelectedRoom(st.rooms, values.nomorBed)
        oldRoom == Find(st.rooms, {r \in Range(st.rooms) :
                                       r.roomNumber = editingPatient.nomorBed})
        freed == IF oldRoom # Undefined
                 THEN updateRoomState(st, oldRoom.id, [status |-> "Tersedia"])
                 ELSE st
    IN IF values.nik # editingPatient.nik /\ getPatientByNIK(ps, values.nik) # Undefined
       THEN [ret |-> "nik", st |-> st]
       ELSE IF values.nomorBed # editingPatient.nomorBed
            THEN IF selectedRoom = Undefined
                 THEN [ret |-> "bed", st |-> freed]
                 ELSE [ret |-> "ok", st |-> MoveBed(st, editingPatient.nomorBed, selectedRoom)]
            ELSE [ret |-> "ok", st |-> st]

\* onSubmit (edit) up to updatePatient: the verdict and the room store after it
EditOutcome(ps, st, editingPatient, values) ==
    LET selectedRoom == SelectedRoom(st.rooms, values.nomorBed)
    IN IF values.nik # editingPatient.nik /\ getPatientByNIK(ps, values.nik) # Undefined
       THEN [ret |-> "nik", st |-> st]
       ELSE IF values.nomorBed # editingPatient.nomorBed
            THEN IF selectedRoom = Undefined
                 THEN [ret |-> "bed", st |-> st]
                 ELSE [ret |-> "ok", st |-> MoveBed(st, editingPatient.nomorBed, selectedRoom)]
            ELSE [ret |-> "ok", st |-> st]

\* onSubmit (create) up to addPatient: the verdict and the room store after it
CreateOutcome(ps, st, values) ==
    LET selectedRoom == SelectedRoom(st.rooms, values.nomorBed)
    IN IF getPatientByNIK(ps, values.nik) # Undefined
       THEN [ret |-> "nik", st |-> st]
       ELSE IF selectedRoom = Undefined
            THEN [ret |-> "bed", st |-> st]
            ELSE [ret |-> "ok",
                  st |-> updateRoomState(st, selectedRoom.id, [status |-> "Terisi"])]

\* AdmissionForm.onSubmit; patientId is the route parameter, NoId on the create route
onSubmit(patientId, values) ==
    LET editingPatient == IF patientId = NoId THEN Undefined
                          ELSE getPatientById(patients, patientId)
    IN IF editingPatient # Undefined
       THEN LET out == EditOutcome(patients, RoomState, editingPatient, values)
            IN /\ IF out.st = RoomState
                  THEN UNCHANGED <<rooms, userAddedRooms, storedRooms>>
                  ELSE SetRoomState(out.st)
               /\ IF out.ret = "ok"
                  THEN updatePatient(editingPatient.id, values)
                  ELSE UNCHANGED patientVars
               /\ Did("onSubmit", editingPatient.id, out.ret,
                      [mode |-> "edit", from |-> editingPatient.nomorBed,
                       to |-> values.nomorBed])
       ELSE LET out == CreateOutcome(patients, RoomState, values)
            IN /\ IF out.st = RoomState
                  THEN UNCHANGED <<rooms, userAddedRooms, storedRooms>>
                  ELSE SetRoomState(out.st)
               /\ IF out.ret = "ok"
                  THEN addPatient(values)
                  ELSE UNCHANGED patientVars
               /\ Ran("onSubmit",
                      IF out.ret = "ok" THEN generateId(nextId + 1) ELSE NoId, out.ret,
                      [mode |-> "create", from |-> values.nomorBed,
                       to |-> values.nomorBed])
               /\ draft' = IF out.ret = "ok" THEN <<>> ELSE draft
               /\ form' = IF out.ret = "ok" THEN <<>> ELSE form
               /\ UNCHANGED storedFiles

SubmitAdmission ==
    \E patientId \in KnownIds \cup {NoId}, values \in AdmissionFormData :
        /\ onSubmit(patientId, values)
        /\ UNCHANGED <<roomsIsLoaded, roomsIsLoading, nextRoomId>>

\* PatientDetailModal.handleDischarge on the row shown
handleDischarge ==
    \E patient \in Range(patients) :
        /\ IF patient.status = "Keluar"
           THEN UNCHANGED patientVars /\ Did("handleDischarge", patient.id, "already", {})
           ELSE /\ dischargePatient(patient.id, Now)
                /\ Did("handleDischarge", patient.id, "discharged", {patient.id})
        /\ UNCHANGED roomVars

\* dischargePatient called for every selected row that is 'Aktif'
RECURSIVE DischargeAll(_, _)
DischargeAll(ps, ids) ==
    IF ids = {} THEN ps
    ELSE LET id == CHOOSE x \in ids : TRUE
         IN DischargeAll(DischargePatients(ps, id, Now), ids \ {id})

\* PatientBulkActions.handleBulkStatusChange('Keluar') on the selected rows
handleBulkStatusChange ==
    \E selected \in (SUBSET {p.id : p \in Range(patients)}) \ {{}} :
        LET active == {p.id : p \in {q \in Range(patients) :
                                        q.id \in selected /\ q.status = "Aktif"}}
        IN /\ patients' = DischargeAll(patients, active)
           /\ userAddedPatients' = userAddedPatients
           /\ Did("handleBulkStatusChange", NoId,
                  IF active # {} THEN "discharged" ELSE "none", active)
           /\ storedPatients' = Persisted(storedPatients, userAddedPatients')
           /\ UNCHANGED <<isLoaded, isLoading, nextId, issued, inflight>>
           /\ UNCHANGED roomVars

\* DeleteConfirmDialog.handleConfirm on the row shown
handleConfirm ==
    \E patient \in Range(patients) :
        /\ deletePatient(patient.id)
        /\ Did("handleConfirm", patient.id, TRUE, 0)
        /\ UNCHANGED roomVars

\* RoomDialogs.onSubmit; currentRowId is the row being edited, NoId for create
onSubmitRoom(currentRowId, values) ==
    LET currentRow == getRoomById(rooms, currentRowId)
        shown == [mode |-> IF currentRowId # NoId THEN "edit" ELSE "create",
                  from |-> IF currentRowId # NoId THEN currentRow.roomNumber
                           ELSE values.roomNumber,
                  to |-> values.roomNumber]
    IN IF ~isRoomNumberUnique(rooms, values.roomNumber, currentRowId)
       THEN /\ UNCHANGED roomVars
            /\ Did("onSubmitRoom", currentRowId, "roomNumber", shown)
       ELSE IF currentRowId # NoId
            THEN /\ updateRoom(currentRowId, values)
                 /\ Did("onSubmitRoom", currentRowId, "ok", shown)
            ELSE /\ addRoom(values)
                 /\ Did("onSubmitRoom", generateRoomId(nextRoomId + 1), "ok", shown)

SubmitRoom ==
    \E currentRowId \in {r.id : r \in Range(rooms)} \cup {NoId}, values \in RoomFormData :
        onSubmitRoom(currentRowId, values) /\ UNCHANGED patientVars

\* DeleteRoomConfirmDialog.handleConfirm on the row shown
handleConfirmRoom ==
    \E room \in Range(rooms) :
        /\ IF ~canDeleteRoom(rooms, room.id)
           THEN UNCHANGED roomVars
           ELSE deleteRoom(room.id)
        /\ Did("handleConfirmRoom", room.id,
               canDeleteRoom(rooms, room.id) /\ deleteRoomResult(rooms, room.id), 0)
        /\ UNCHANGED patientVars

\* Admission, discharge and deletion of patients around the two loads, one session
Next ==
    \/ SubmitAdmission
    \/ handleDischarge
    \/ handleBulkStatusChange
    \/ handleConfirm
    \/ StoreLoadMockData
    \/ StoreLoadResolved
    \/ StoreLoadRejected
    \/ StoreLoadMockRooms
    \/ StoreLoadRoomsResolved
    \/ StoreLoadRoomsRejected

Spec == Init /\ [][Next]_vars

\* Admission-form submissions around the two loads, across page reloads
NextSessions ==
    \/ SubmitAdmission
    \/ StoreLoadMockData
    \/ StoreLoadResolved
    \/ StoreLoadRejected
    \/ StoreLoadMockRooms
    \/ StoreLoadRoomsResolved
    \/ StoreLoadRoomsRejected
    \/ Reload

SpecSessions == Init /\ [][NextSessions]_vars

\* Room management: the room dialog and the delete dialog, with load and reload
NextRoomDialog ==
    \/ SubmitRoom
    \/ handleConfirmRoom
    \/ StoreLoadMockRooms
    \/ StoreLoadRoomsResolved
    \/ StoreLoadRoomsRejected
    \/ Reload

SpecRoomDialog == Init /\ [][NextRoomDialog]_vars

----------------------------------------------------------------------------
(* Properties of the patient store *)

Suffix(number) == ParseInt(number.digits)
ThisYear(number) == number.year = CurrentYear
WithId(ps, id) == {p \in Range(ps) : p.id = id}
SameIdentity(p, q) ==
    /\ p.id = q.id
    /\ p.noRM = q.noRM
    /\ p.nomorRegistrasi = q.nomorRegistrasi
    /\ p.registrationDate = q.registrationDate

\* C2: every record of userAddedPatients equals the record with the same id
\* in patients, and no record of userAddedPatients is missing from patients.
C2_PersistedSubsetInStep ==
    \A u \in Range(userAddedPatients) :
        /\ \E p \in Range(patients) : p.id = u.id
        /\ \A p \in Range(patients) : p.id = u.id => p = u

\* C3: the suffix an addPatient hands out is greater than every suffix
\* handed out before it, for noRM and for nomorRegistrasi.
C3_SuffixesNeverRepeat ==
    [][last'.op = "addPatient" =>
         \A p \in WithId(patients', last'.id) :
             /\ Suffix(p.noRM) > issued.rm
             /\ Suffix(p.nomorRegistrasi) > issued.reg]_vars

\* C3 amended: the suffix an addPatient hands out is greater than the suffix
\* of every record of this year then in patients; it is greater than every
\* suffix handed out before as long as the record holding the highest
\* handed-out number is still in patients.
C3_SuffixAboveExisting ==
    [][last'.op = "addPatient" =>
         \A p \in WithId(patients', last'.id) :
             /\ \A q \in Range(patients) :
                   /\ ThisYear(q.noRM) => Suffix(p.noRM) > Suffix(q.noRM)
                   /\ ThisYear(q.nomorRegistrasi) =>
                          Suffix(p.nomorRegistrasi) > Suffix(q.nomorRegistrasi)
             /\ (\E q \in Range(patients) :
                     ThisYear(q.noRM) /\ Suffix(q.noRM) = issued.rm)
                   => Suffix(p.noRM) > issued.rm
             /\ (\E q \in Range(patients) :
                     ThisYear(q.nomorRegistrasi) /\ Suffix(q.nomorRegistrasi) = issued.reg)
                   => Suffix(p.nomorRegistrasi) > issued.reg]_vars

\* an addPatient that follows the deletion of a user-added record
C3_AddAfterDelete ==
    /\ last.op = "addPatient"
    /\ nextId >= 2
    /\ Len(userAddedPatients) < nextId
    /\ issued.rm >= 1

\* C4: no two records of patients share a noRM or a nomorRegistrasi.
C4_RecordNumbersUnique ==
    \A i, j \in 1..Len(patients) :
        i # j => /\ patients[i].noRM # patients[j].noRM
                 /\ patients[i].nomorRegistrasi # patients[j].nomorRegistrasi

\* C5: updatePatient keeps id, noRM, nomorRegistrasi and registrationDate of
\* the target and leaves every other record as it was, in patients and in
\* userAddedPatients.
UpdateFrame(before, after, id) ==
    /\ Len(after) = Len(before)
    /\ \A p \in Range(before) : p.id # id => p \in Range(after)
    /\ \A q \in Range(after) : q.id # id => q \in Range(before)
    /\ \A p \in Range(before) : p.id = id =>
           \E q \in Range(after) : SameIdentity(p, q)
    /\ \A q \in Range(after) : q.id = id =>
           \E p \in Range(before) : SameIdentity(p, q)

C5_UpdateKeepsIdentity ==
    [][last'.op = "updatePatient" =>
         /\ UpdateFrame(patients, patients', last'.id)
         /\ UpdateFrame(userAddedPatients, userAddedPatients', last'.id)]_vars

\* an update of a user-added record whose payload carried noRM
C5_UpdatedWithIdentityKeys ==
    /\ last.op = "updatePatient"
    /\ last.ret = "patient"
    /\ "noRM" \in last.aux
    /\ WithId(userAddedPatients, last.id) # {}

----------------------------------------------------------------------------
(* Properties of the room store *)

\* C6: deleteRoom of a 'Terisi' room or of an unknown id returns false and
\* leaves rooms and userAddedRooms unchanged; of any other existing room it
\* returns true and removes exactly that record from both lists.
RemovedExactly(before, after, id) ==
    /\ \A r \in Range(after) : r.id # id
    /\ \A r \in Range(before) : r.id # id => r \in Range(after)
    /\ \A r \in Range(after) : r \in Range(before)
    /\ Len(after) = Len(before) - Cardinality({i \in 1..Len(before) : before[i].id = id})

C6_DeleteRoomGuard ==
    [][last'.op = "deleteRoom" =>
         LET target == WithId(rooms, last'.id)
         IN IF target = {} \/ (\E r \in target : r.status = "Terisi")
            THEN /\ last'.ret = FALSE
                 /\ rooms' = rooms
                 /\ userAddedRooms' = userAddedRooms
            ELSE /\ last'.ret = TRUE
                 /\ Len(rooms') = Len(rooms) - 1
                 /\ RemovedExactly(rooms, rooms', last'.id)
                 /\ RemovedExactly(userAddedRooms, userAddedRooms', last'.id)]_vars

\* a refused deleteRoom of an occupied room
C6_OccupiedRoomKept ==
    /\ last.op = "deleteRoom"
    /\ last.ret = FALSE
    /\ \E r \in WithId(rooms, last.id) : r.status = "Terisi"

----------------------------------------------------------------------------
(* Properties of the handlers *)

RoomsNumbered(rs, roomNumber) == {r \in Range(rs) : r.roomNumber = roomNumber}

\* C1: after handleDischarge or the bulk 'Pulangkan Pasien' discharged a
\* patient, every room whose roomNumber is that patient's nomorBed is 'Tersedia'.
C1_DischargeFreesBed ==
    (last.op \in {"handleDischarge", "handleBulkStatusChange"} /\ last.ret = "discharged")
        => \A p \in Range(patients) :
               p.id \in last.aux =>
                   \A r \in RoomsNumbered(rooms, p.nomorBed) : r.status = "Tersedia"

\* C7: an accepted create found a 'Tersedia' room numbered nomorBed, leaves
\* that room 'Terisi' and the new patient 'Aktif'; an accepted edit from bed A
\* to bed B found B 'Tersedia', leaves it 'Terisi' and leaves A 'Tersedia';
\* an edit that keeps the bed leaves rooms and userAddedRooms as they were.
OccupiedBy(before, after, roomNumber) ==
    \E r \in RoomsNumbered(before, roomNumber) :
        /\ r.status = "Tersedia"
        /\ WithId(after, r.id) # {}
        /\ \A r2 \in WithId(after, r.id) : r2.status = "Terisi"

C7_SubmissionMovesBeds ==
    [][(last'.op = "onSubmit" /\ last'.ret = "ok") =>
         LET shown == last'.aux
         IN /\ shown.mode = "create" =>
                  /\ OccupiedBy(rooms, rooms', shown.to)
                  /\ \E p \in WithId(patients', last'.id) :
                         p.status = "Aktif" /\ p.nomorBed = shown.to
            /\ (shown.mode = "edit" /\ shown.from # shown.to) =>
                  /\ OccupiedBy(rooms, rooms', shown.to)
                  /\ RoomsNumbered(rooms, shown.from) # {} =>
                         \E r \in RoomsNumbered(rooms', shown.from) : r.status = "Tersedia"
            /\ (shown.mode = "edit" /\ shown.from = shown.to) =>
                  /\ rooms' = rooms
                  /\ userAddedRooms' = userAddedRooms]_vars

\* an accepted edit that moved a patient from one existing bed to another
C7_BedChanged ==
    /\ last.op = "onSubmit"
    /\ last.ret = "ok"
    /\ last.aux.mode = "edit"
    /\ last.aux.from # last.aux.to
    /\ RoomsNumbered(rooms, last.aux.from) # {}
    /\ \E p \in WithId(patients, last.id) : p.nomorBed = last.aux.to

\* C8: a submission refused for its NIK or its bed leaves patients,
\* userAddedPatients, rooms and userAddedRooms as they were.
C8_RejectionChangesNothing ==
    [][(last'.op = "onSubmit" /\ last'.ret \in {"nik", "bed"}) =>
         /\ patients' = patients
         /\ userAddedPatients' = userAddedPatients
         /\ rooms' = rooms
         /\ userAddedRooms' = userAddedRooms]_vars

\* an edit refused because the new bed is taken, the old bed being occupied
C8_EditRefusedForBed ==
    /\ last.op = "onSubmit"
    /\ last.ret = "bed"
    /\ last.aux.mode = "edit"
    /\ \E r \in RoomsNumbered(rooms, last.aux.from) : r.status = "Terisi"

\* C9: no two records of patients have the same nik.
C9_NikUnique ==
    \A i, j \in 1..Len(patients) : i # j => patients[i].nik # patients[j].nik

\* C10: a room-dialog submission or a deletion keeps the room numbers
\* pairwise distinct, and an edit that keeps the room's own number is accepted.
RoomNumbersDistinct(rs) ==
    \A i, j \in 1..Len(rs) : i # j => rs[i].roomNumber # rs[j].roomNumber

C10_RoomNumbersStayDistinct ==
    [][(last'.op \in {"onSubmitRoom", "handleConfirmRoom"} /\ RoomNumbersDistinct(rooms)) =>
         /\ RoomNumbersDistinct(rooms')
         /\ (last'.op = "onSubmitRoom" /\ last'.aux.mode = "edit"
               /\ last'.aux.from = last'.aux.to) => last'.ret = "ok"]_vars

\* an accepted edit that kept the room's number, another room being present
C10_EditKeptNumber ==
    /\ last.op = "onSubmitRoom"
    /\ last.ret = "ok"
    /\ last.aux.mode = "edit"
    /\ last.aux.from = last.aux.to
    /\ Len(rooms) >= 2
    /\ RoomNumbersDistinct(rooms)

----------------------------------------------------------------------------
(* Properties of the calls that carry a referral file *)

\* C11: the records created by addPatient calls that carried a referral
\* file, overlapping or not, have pairwise different noRM and pairwise
\* different nomorRegistrasi, and each is in patients and userAddedPatients.
C11_OverlappingAddsDistinct ==
    /\ \A i, j \in 1..Len(userAddedPatients) :
           i # j => /\ userAddedPatients[i].noRM # userAddedPatients[j].noRM
                    /\ userAddedPatients[i].nomorRegistrasi #
                           userAddedPatients[j].nomorRegistrasi
    /\ \A u \in Range(userAddedPatients) : u \in Range(patients)

\* C13: a call whose saveFile failed changes neither patients nor
\* userAddedPatients, and creates no record.
C13_FileFailureAborts ==
    [][(last'.op \in {"addPatient", "updatePatient"} /\ last'.ret = "throws") =>
         /\ patients' = patients
         /\ userAddedPatients' = userAddedPatients
         /\ nextId' = nextId]_vars

\* a pending addPatient whose saveFile was rejected, other records being present
C13_AddRejected ==
    /\ last.op = "addPatient"
    /\ last.ret = "throws"
    /\ last.aux \in {"read", "quota"}
    /\ patients # <<>>

----------------------------------------------------------------------------
(* Properties of the persisted subset *)

StoreOps == {"addPatient", "updatePatient", "deletePatient",
             "addRoom", "updateRoom", "deleteRoom"}

----------------------------------------------------------------------------
(* Properties of the loads *)

\* C14: when fetchMockPatients (fetchMockRooms) rejects, loadMockData ends
\* without an error, with patients equal to userAddedPatients (rooms equal
\* to userAddedRooms), isLoaded true and isLoading false.
C14_LoadFailureFallsBack ==
    [][/\ (last'.op = "loadMockData" /\ last'.ret = "rejected") =>
              /\ last'.error = "none"
              /\ patients' = userAddedPatients'
              /\ userAddedPatients' = userAddedPatients
              /\ isLoaded'
              /\ ~isLoading'
       /\ (last'.op = "loadMockRooms" /\ last'.ret = "rejected") =>
              /\ last'.error = "none"
              /\ rooms' = userAddedRooms'
              /\ userAddedRooms' = userAddedRooms
              /\ roomsIsLoaded'
              /\ ~roomsIsLoading']_vars

\* a failed patient load that fell back to a user-added record
C14_FellBackToUserAdded ==
    /\ last.op = "loadMockData"
    /\ last.ret = "rejected"
    /\ userAddedPatients # <<>>
    /\ patients = userAddedPatients

----------------------------------------------------------------------------
(* Properties of the user-added lists *)

IdsOf(s) == {x.id : x \in Range(s)}

\* C15: userAddedPatients gains a record only by addPatient and loses one
\* only by a deletePatient that found it, userAddedRooms gains one only by
\* addRoom and loses one only by an accepted deleteRoom; no record of the mock data is ever in
\* either list, whatever is updated, discharged, loaded or reloaded.
C15_OnlyLocalRecordsPersisted ==
    [][/\ IdsOf(userAddedPatients') =
              IF last'.op = "addPatient"
              THEN IdsOf(userAddedPatients) \cup {last'.id}
              ELSE IF last'.op = "deletePatient" /\ last'.ret = TRUE
                   THEN IdsOf(userAddedPatients) \ {last'.id}
                   ELSE IdsOf(userAddedPatients)
       /\ IdsOf(userAddedRooms') =
              IF last'.op = "addRoom"
              THEN IdsOf(userAddedRooms) \cup {last'.id}
              ELSE IF last'.op = "deleteRoom" /\ last'.ret = TRUE
                   THEN IdsOf(userAddedRooms) \ {last'.id}
                   ELSE IdsOf(userAddedRooms)
       /\ IdsOf(userAddedPatients') \cap IdsOf(MockPatients) = {}
       /\ IdsOf(userAddedRooms') \cap IdsOf(MockRooms) = {}
       /\ Cardinality(IdsOf(userAddedPatients')) = Len(userAddedPatients')
       /\ Cardinality(IdsOf(userAddedRooms')) = Len(userAddedRooms')]_vars

\* a loaded (mock) patient was updated while a user-added record exists
C15_MockRecordUpdated ==
    /\ last.op = "updatePatient"
    /\ last.ret = "patient"
    /\ last.id \in IdsOf(MockPatients)
    /\ userAddedPatients # <<>>
    /\ last.id \notin IdsOf(userAddedPatients)

----------------------------------------------------------------------------
(* Queries over the patient list.  A Date is its millisecond count; the    *)
(* local day is MsPerDay long (no daylight-saving shift).  A patient       *)
(* record here carries the fields the query reads.                         *)

MaxListed == 2      \* patients in the list a query runs on

\* setHours(23, 59, 59, 999): the last millisecond of the day
EndOfDayMs == 23 * 3600000 + 59 * 60000 + 59 * 1000 + 999

MsPerDay == EndOfDayMs + 1

\* date.setHours(0, 0, 0, 0)
StartOfDay(date) == date - (date % MsPerDay)

\* date.setHours(23, 59, 59, 999)
EndOfDay(date) == StartOfDay(date) + EndOfDayMs

\* the first and the last instant of each day of Times
Dates == {day * MsPerDay + ms : day \in Times, ms \in {0, EndOfDayMs}}

\* every list of at most MaxListed records of pool, ids given by position
RECURSIVE ListsOf(_, _)
ListsOf(pool, n) ==
    IF n = 0 THEN {<<>>}
    ELSE LET shorter == ListsOf(pool, n - 1)
         IN shorter \cup
            {Append(l, Spread(p, [id |-> <<"listed", Len(l) + 1>>])) :
                 l \in {x \in shorter : Len(x) = n - 1}, p \in pool}

\* the store after a load, holding one of lists; nothing else has happened
InitListed(lists) ==
    /\ patients \in lists
    /\ userAddedPatients = <<>>
    /\ isLoaded = TRUE
    /\ isLoading = FALSE
    /\ rooms = <<>>
    /\ userAddedRooms = <<>>
    /\ roomsIsLoaded = FALSE
    /\ roomsIsLoading = FALSE
    /\ nextId = 0
    /\ nextRoomId = 0
    /\ issued = [rm |-> 0, reg |-> 0]
    /\ inflight = <<>>
    /\ storedPatients = <<>>
    /\ storedRooms = <<>>
    /\ storageFull = FALSE
    /\ form = <<>>
    /\ draft = <<>>
    /\ storedFiles = {}
    /\ last = [op |-> "init", id |-> NoId, ret |-> "ok", aux |-> 0, error |-> "none"]

\* a query ran on the list as loaded; it changes nothing in either store
Queried(op, ret, aux) ==
    /\ last.op = "init"
    /\ Did(op, NoId, ret, aux)
    /\ UNCHANGED <<patientVars, roomVars>>

\* one optional key of an object: left out, or present with a value of vals
Optional(key, vals) == {<<>>} \cup {[k \in {key} |-> v] : v \in vals}

\* patients that differ in status and class, one that differs in payment,
\* and patients that differ in admission time only
FilterPool ==
    [status : {"Aktif", "Keluar"}, kelasPerawatan : {"VIP", "ICU"},
     caraBayar : {"BPJS Kesehatan"}, tanggalJamMasuk : {MsPerDay}]
    \cup [status : {"Aktif"}, kelasPerawatan : {"VIP"},
          caraBayar : {"BPJS Kesehatan", "Umum-Pribadi"}, tanggalJamMasuk : {MsPerDay}]
    \cup [status : {"Aktif"}, kelasPerawatan : {"VIP"}, caraBayar : {"BPJS Kesehatan"},
          tanggalJamMasuk : Dates]

\* PatientFilters: every key optional
PatientFilters ==
    {Spread(Spread(Spread(st, kp), Spread(cb, ts)), te) :
        st \in Optional("status", {"Aktif", "Keluar"}),
        kp \in Optional("kelasPerawatan", {<<>>, <<"ICU", "VIP">>}),
        cb \in Optional("caraBayar", {<<"BPJS Kesehatan">>}),
        ts \in Optional("tanggalMasukStart", Dates),
        te \in Optional("tanggalMasukEnd", Dates)}

\* variant: startDate keeps its time of day
FromStartDate_KeepsTime(filtered, tanggalMasukStart) ==
    SeqFilter(filtered, {patient \in Range(filtered) :
                            StartOfDay(patient.tanggalJamMasuk) >= tanggalMasukStart})

\* filtered.filter(patient => patientDate >= startDate), both at 00:00
FromStartDate(filtered, tanggalMasukStart) ==
    SeqFilter(filtered, {patient \in Range(filtered) :
                            StartOfDay(patient.tanggalJamMasuk) >=
                                StartOfDay(tanggalMasukStart)})

\* filtered.filter(patient => patientDate <= endDate), endDate at 23:59:59.999
ToEndDate(filtered, tanggalMasukEnd) ==
    SeqFilter(filtered, {patient \in Range(filtered) :
                            StartOfDay(patient.tanggalJamMasuk) <=
                                EndOfDay(tanggalMasukEnd)})

filterPatients(list, filters) ==
    LET byStatus ==
            IF "status" \in DOMAIN filters
            THEN SeqFilter(list, {patient \in Range(list) :
                                     patient.status = filters.status})
            ELSE list
        byKelas ==
            IF "kelasPerawatan" \in DOMAIN filters /\ Len(filters.kelasPerawatan) > 0
            THEN SeqFilter(byStatus, {patient \in Range(byStatus) :
                      patient.kelasPerawatan \in Range(filters.kelasPerawatan)})
            ELSE byStatus
        byCaraBayar ==
            IF "caraBayar" \in DOMAIN filters /\ Len(filters.caraBayar) > 0
            THEN SeqFilter(byKelas, {patient \in Range(byKelas) :
                      patient.caraBayar \in Range(filters.caraBayar)})
            ELSE byKelas
        fromStart ==
            IF "tanggalMasukStart" \in DOMAIN filters
            THEN FromStartDate(byCaraBayar, filters.tanggalMasukStart)
            ELSE byCaraBayar
    IN IF "tanggalMasukEnd" \in DOMAIN filters
       THEN ToEndDate(fromStart, filters.tanggalMasukEnd)
       ELSE fromStart

StoreFilterPatients ==
    \E filters \in PatientFilters :
        Queried("filterPatients", filterPatients(patients, filters), filters)

SpecFilter ==
    InitListed(ListsOf(FilterPool, MaxListed))
    /\ [][StoreFilterPatients]_vars

----------------------------------------------------------------------------
(* searchPatients.  A string is the sequence of its characters; the five   *)
(* searched fields and the two legacy fields are kept as text.             *)

MaxQuery == 2       \* characters in a search query

QueryChars == {"a", "A", "1", " "}

RECURSIVE StringsOf(_, _)
StringsOf(chars, n) ==
    IF n = 0 THEN {<<>>}
    ELSE LET shorter == StringsOf(chars, n - 1)
         IN shorter \cup {Append(str, c) : str \in {x \in shorter : Len(x) = n - 1},
                                          c \in chars}

Queries == StringsOf(QueryChars, MaxQuery)

\* String.prototype.toLowerCase over the characters in use
toLowerCase(str) == [i \in 1..Len(str) |-> IF str[i] = "A" THEN "a" ELSE str[i]]

\* String.prototype.trim
RECURSIVE trim(_)
trim(str) ==
    IF str = <<>> THEN str
    ELSE IF Head(str) = " " THEN trim(Tail(str))
    ELSE IF str[Len(str)] = " " THEN trim(SubSeq(str, 1, Len(str) - 1))
    ELSE str

\* variant: a match at the start of the string only
includes_PrefixOnly(str, search) ==
    /\ Len(search) <= Len(str)
    /\ SubSeq(str, 1, Len(search)) = search

\* String.prototype.includes
includes(str, search) ==
    \E from \in 1..(Len(str) - Len(search) + 1) :
        SubSeq(str, from, from + Len(search) - 1) = search

\* patient.field && ...: the field is there and not the empty string
Truthy(patient, field) == field \in DOMAIN patient /\ patient[field] # <<>>

\* a record none of whose fields holds a query character
SearchBase ==
    [namaLengkap |-> <<"x">>, nik |-> <<"0">>, noRM |-> <<"x">>,
     noHandphone |-> <<"0">>, nomorRegistrasi |-> <<"x">>]

\* the base record, and the base record with one field holding query characters
SearchPool ==
    {SearchBase}
    \cup {Spread(SearchBase, one) :
            one \in {[namaLengkap |-> <<"x", "A">>], [nik |-> <<"0", "1">>],
                     [noRM |-> <<"A", "1">>], [noHandphone |-> <<"0", "1", "1">>],
                     [nomorRegistrasi |-> <<"A", "A">>],
                     [name |-> <<"x", "a">>], [phoneNumber |-> <<"1", "1">>]}}

searchPatients(list, query) ==
    IF trim(query) = <<>>
    THEN list
    ELSE LET lowerQuery == trim(toLowerCase(query))
         IN SeqFilter(list, {patient \in Range(list) :
                \/ Truthy(patient, "nik") /\ includes(patient.nik, lowerQuery)
                \/ Truthy(patient, "noRM")
                       /\ includes(toLowerCase(patient.noRM), lowerQuery)
                \/ Truthy(patient, "namaLengkap")
                       /\ includes(toLowerCase(patient.namaLengkap), lowerQuery)
                \/ Truthy(patient, "noHandphone")
                       /\ includes(patient.noHandphone, lowerQuery)
                \/ Truthy(patient, "nomorRegistrasi")
                       /\ includes(toLowerCase(patient.nomorRegistrasi), lowerQuery)
                \/ Truthy(patient, "name")
                       /\ includes(toLowerCase(patient.name), lowerQuery)
                \/ Truthy(patient, "phoneNumber")
                       /\ includes(patient.phoneNumber, lowerQuery)})

StoreSearchPatients ==
    \E query \in Queries :
        Queried("searchPatients", searchPatients(patients, query), query)

SpecSearch ==
    InitListed(ListsOf(SearchPool, MaxListed))
    /\ [][StoreSearchPatients]_vars

----------------------------------------------------------------------------
(* getAdmissionTrend.  The browser's time zone is part of the input: its   *)
(* standard offset from UTC and, when it has daylight saving, the local    *)
(* day on which the clocks go forward by one hour (at 01:00 standard       *)
(* time).  Only count is kept of an entry; a date string "YYYY-MM-DD" is   *)
(* the number of its UTC day.                                              *)

MaxDays == 2        \* the days argument of getAdmissionTrend

MsPerHour == MsPerDay \div 24

\* instants the clock may show and patients may have been admitted at
TrendInstants ==
    {(MaxDays + day) * MsPerDay + ms : day \in 0..MaxTime, ms \in {0, EndOfDayMs}}

\* Asia/Jakarta (UTC+7, no daylight saving) and a zone on UTC in winter and
\* UTC+1 in summer whose clocks go forward on one of the days in view
TimeZones ==
    {[standard |-> 7 * MsPerHour, dstStartsOn |-> 0]}
    \cup {[standard |-> 0, dstStartsOn |-> MaxDays + day] : day \in 0..MaxTime}

\* the offset in effect at the instant date
OffsetAt(date, zone) ==
    IF /\ zone.dstStartsOn > 0
       /\ date >= zone.dstStartsOn * MsPerDay + MsPerHour - zone.standard
    THEN zone.standard + MsPerHour
    ELSE zone.standard

\* the local calendar day the instant date falls on
LocalDay(date, zone) == (date + OffsetAt(date, zone)) \div MsPerDay

\* the instant of 00:00 local time on a local calendar day
LocalMidnight(localDay, zone) ==
    localDay * MsPerDay
        - (IF zone.dstStartsOn > 0 /\ localDay > zone.dstStartsOn
           THEN zone.standard + MsPerHour
           ELSE zone.standard)

\* date.toISOString().split('T')[0]: the UTC day of the instant
toISODate(date) == date \div MsPerDay

\* Array.from(map.entries()).sort(by date): ascending, one entry per key
RECURSIVE SortedEntries(_, _)
SortedEntries(keys, counted) ==
    IF keys = {} THEN <<>>
    ELSE LET first == CHOOSE k \in keys : \A other \in keys : k <= other
             onDate == {i \in 1..Len(counted) :
                           toISODate(counted[i].tanggalJamMasuk) = first}
         IN <<[date |-> first,
               count |-> Cardinality(onDate),
               byCaraMasuk |->
                   [caraMasuk \in {counted[i].caraMasuk : i \in onDate} |->
                       Cardinality({i \in onDate : counted[i].caraMasuk = caraMasuk})]]>>
            \o SortedEntries(keys \ {first}, counted)

getAdmissionTrend(list, days, now, zone) ==
    LET startDay == LocalDay(now, zone) - days
        startDate == LocalMidnight(startDay, zone)
        recentPatients ==
            SeqFilter(list, {patient \in Range(list) :
                                patient.tanggalJamMasuk >= startDate})
        dateMap == {toISODate(LocalMidnight(startDay + i, zone)) : i \in 0..(days - 1)}
    IN SortedEntries(dateMap, recentPatients)

StoreGetAdmissionTrend ==
    \E days \in 1..MaxDays, now \in TrendInstants, zone \in TimeZones :
        Queried("getAdmissionTrend", getAdmissionTrend(patients, days, now, zone),
                [days |-> days, now |-> now, zone |-> zone])

SpecTrend ==
    InitListed(ListsOf([tanggalJamMasuk : TrendInstants,
                        caraMasuk : {"IGD", "Rujukan Luar"}], MaxListed))
    /\ [][StoreGetAdmissionTrend]_vars

----------------------------------------------------------------------------
(* getBedOccupancyByClass.  occupied * 1.5 and (occupied / total) * 100    *)
(* are kept as fractions; Math.ceil and Math.round work on a numerator and *)
(* a denominator.                                                          *)

MaxBeds == 4        \* patients in the list the occupancy is computed on

careClasses == <<"VVIP", "VIP", "Kelas 1", "Kelas 2", "Kelas 3", "ICU">>

\* Math.ceil(num / den), den > 0
Ceil(num, den) == (num + den - 1) \div den

\* Math.round(num / den), den > 0, num >= 0: halves go up
Round(num, den) == (2 * num + den) \div (2 * den)

\* variant: discharged patients are counted too
occupiedByClass_CountsDischarged(list, kelas) ==
    Cardinality({i \in 1..Len(list) : list[i].kelasPerawatan = kelas})

\* occupiedByClass.get(kelas) || 0 over the patients with status 'Aktif'
occupiedByClass(list, kelas) ==
    Cardinality({i \in 1..Len(list) :
                    list[i].status = "Aktif" /\ list[i].kelasPerawatan = kelas})

getBedOccupancyByClass(list) ==
    [c \in 1..Len(careClasses) |->
        LET kelas == careClasses[c]
            occupied == occupiedByClass(list, kelas)
            estimate == Max(occupied, Ceil(occupied * 3, 2))
            total == IF estimate # 0 THEN estimate ELSE 10
        IN [kelas |-> kelas,
            total |-> total,
            occupied |-> occupied,
            percentage |-> IF total > 0 THEN Round(occupied * 100, total) ELSE 0]]

StoreGetBedOccupancyByClass ==
    Queried("getBedOccupancyByClass", getBedOccupancyByClass(patients), 0)

\* active and discharged patients of one class, active patients of another
OccupancyPool ==
    {[status |-> "Aktif", kelasPerawatan |-> "VIP"],
     [status |-> "Keluar", kelasPerawatan |-> "VIP"],
     [status |-> "Aktif", kelasPerawatan |-> "ICU"]}

SpecOccupancy ==
    InitListed(ListsOf(OccupancyPool, MaxBeds))
    /\ [][StoreGetBedOccupancyByClass]_vars

----------------------------------------------------------------------------
(* admissionSchema: the three cross-field refinements, run on a form whose *)
(* fields have each passed their own rule.  A string is the sequence of    *)
(* its characters; an optional field is a key that may be missing.         *)

\* forms that pass every field rule, over the fields the refinements read
ValidFieldForms ==
    {Spread(Spread(Spread(Spread(cm, cb), Spread(ar, nf)), Spread(ns, ts)),
            Spread(nk, kh)) :
        cm \in {[caraMasuk |-> c] : c \in {"IGD", "Rawat Jalan-Poli", "Rujukan Luar"}},
        cb \in {[caraBayar |-> c] :
                   c \in {"Umum-Pribadi", "BPJS Kesehatan", "Asuransi Swasta"}},
        ar \in Optional("asalRujukan", {"Puskesmas"}),
        nf \in Optional("namaFaskesPerujuk", {<<>>, <<"x">>}),
        ns \in Optional("nomorSuratRujukan", {<<>>, <<"x">>}),
        ts \in Optional("tanggalSuratRujukan", {Now}),
        nk \in Optional("nomorKartuPolis", {<<>>, <<"x">>}),
        kh \in Optional("kelasHakRawat", {"Kelas 1"})}

\* data.field is a non-empty string
NonEmptyString(data, field) == field \in DOMAIN data /\ Len(data[field]) > 0

\* first refinement: referral fields of a 'Rujukan Luar' admission
RujukanLengkap(data) ==
    IF data.caraMasuk = "Rujukan Luar"
    THEN /\ "asalRujukan" \in DOMAIN data
         /\ NonEmptyString(data, "namaFaskesPerujuk")
         /\ NonEmptyString(data, "nomorSuratRujukan")
         /\ "tanggalSuratRujukan" \in DOMAIN data
    ELSE TRUE

\* variant: an empty card number passes
KartuPolisTerisi_AllowsEmpty(data) ==
    IF data.caraBayar # "Umum-Pribadi"
    THEN "nomorKartuPolis" \in DOMAIN data
    ELSE TRUE

\* second refinement: card / policy number unless the patient pays
KartuPolisTerisi(data) ==
    IF data.caraBayar # "Umum-Pribadi"
    THEN NonEmptyString(data, "nomorKartuPolis")
    ELSE TRUE

\* third refinement: care class entitlement for BPJS
KelasHakRawatDipilih(data) ==
    IF data.caraBayar = "BPJS Kesehatan"
    THEN "kelasHakRawat" \in DOMAIN data
    ELSE TRUE

\* the paths of the issues safeParse reports; none when the form is accepted
admissionSchema(data) ==
    (IF RujukanLengkap(data) THEN {} ELSE {"asalRujukan"})
    \cup (IF KartuPolisTerisi(data) THEN {} ELSE {"nomorKartuPolis"})
    \cup (IF KelasHakRawatDipilih(data) THEN {} ELSE {"kelasHakRawat"})

ParseAdmission ==
    \E data \in ValidFieldForms :
        Queried("admissionSchema", admissionSchema(data), data)

SpecSchema == Init /\ [][ParseAdmission]_vars

----------------------------------------------------------------------------
(* Room placement on the admission form (create route): the three          *)
(* dependent selects, the draft kept in local storage, and the submit      *)
(* through the schema into onSubmit.  A room carries roomType here.        *)

\* KELAS_TO_ROOM_TYPE_MAP[kelas] || []
KELAS_TO_ROOM_TYPE_MAP(kelas) ==
    IF kelas = "VVIP" THEN {"Suite VVIP", "Presidential Suite"}
    ELSE IF kelas = "VIP" THEN {"Suite VIP", "Deluxe VIP"}
    ELSE IF kelas = "Kelas 3" THEN {"Standard Kelas 3", "Shared Kelas 3"}
    ELSE {}

\* defaultValues of the three placement fields
DefaultPlacement == [kelasPerawatan |-> "Kelas 3", namaRuangan |-> "", nomorBed |-> ""]

\* the rooms the selects offer: the free rooms of the class, or all rooms of
\* the class when none is free
availableRoomsByKelas(rs, kelas) ==
    LET availableRooms ==
            SeqFilter(rs, {room \in Range(rs) :
                              /\ room.roomType \in KELAS_TO_ROOM_TYPE_MAP(kelas)
                              /\ room.status = "Tersedia"})
    IN IF Len(availableRooms) = 0
       THEN SeqFilter(rs, {room \in Range(rs) :
                              room.roomType \in KELAS_TO_ROOM_TYPE_MAP(kelas)})
       ELSE availableRooms

uniqueRoomNames(rs, kelas) ==
    {room.roomNumber : room \in Range(availableRoomsByKelas(rs, kelas))}

availableBedsForRoom(rs, kelas, namaRuangan) ==
    {room.roomNumber : room \in {r \in Range(availableRoomsByKelas(rs, kelas)) :
                                    r.roomNumber = namaRuangan}}

\* a form handler ran: nothing in the stores changes
OnForm(op, values) ==
    /\ form' = <<values>>
    /\ Ran(op, NoId, "ok", 0)
    /\ UNCHANGED <<patientVars, roomVars, draft, storedFiles>>

\* the create route is opened: the saved draft is loaded when there is one
OpenAdmissionForm ==
    /\ form = <<>>
    /\ OnForm("mount", IF draft # <<>> THEN draft[1] ELSE DefaultPlacement)

handleKelasChange ==
    \E value \in {"VVIP", "VIP"} :
        /\ form # <<>>
        /\ OnForm("handleKelasChange",
                  [kelasPerawatan |-> value, namaRuangan |-> "", nomorBed |-> ""])

handleRoomChange ==
    /\ form # <<>>
    /\ \E value \in uniqueRoomNames(rooms, form[1].kelasPerawatan) :
           OnForm("handleRoomChange",
                  Spread(form[1], [namaRuangan |-> value, nomorBed |-> ""]))

\* the Nomor Bed select: field.onChange
SelectBed ==
    /\ form # <<>>
    /\ \E value \in availableBedsForRoom(rooms, form[1].kelasPerawatan,
                                         form[1].namaRuangan) :
           OnForm("selectBed", Spread(form[1], [nomorBed |-> value]))

handleSaveDraft ==
    /\ form # <<>>
    /\ draft' = form
    /\ Ran("handleSaveDraft", NoId, "ok", 0)
    /\ UNCHANGED <<patientVars, roomVars, form, storedFiles>>

\* the user leaves the form for another page
LeaveAdmissionForm ==
    /\ form # <<>>
    /\ form' = <<>>
    /\ Ran("unmount", NoId, "ok", 0)
    /\ UNCHANGED <<patientVars, roomVars, draft, storedFiles>>

\* form.handleSubmit(onSubmit): the room placement rules of the schema, then
\* onSubmit; the other fields are filled in validly, the NIK is a new one
SubmitPlacement ==
    /\ form # <<>>
    /\ LET paths == {f \in {"namaRuangan", "nomorBed"} : form[1][f] = ""}
       IN IF paths # {}
          THEN /\ Did("handleSubmit", NoId, "schema", paths)
               /\ UNCHANGED <<patientVars, roomVars>>
          ELSE \E nik \in NIKs :
                  /\ getPatientByNIK(patients, nik) = Undefined
                  /\ onSubmit(NoId, Spread(form[1], [nik |-> nik,
                                                     tanggalJamMasuk |-> Now]))
                  /\ UNCHANGED <<roomsIsLoaded, roomsIsLoading, nextRoomId>>

\* the room page, while the admission form is not on screen: a VVIP room
\* is added, and RoomDialogs changes a room's type
AddSuite ==
    /\ form = <<>>
    /\ AddRoomCall({[roomNumber |-> "101", status |-> "Tersedia",
                     roomType |-> "Suite VVIP"]})

ChangeRoomType ==
    /\ form = <<>>
    /\ UpdateRoomCall({[roomType |-> "Suite VIP"], [roomType |-> "Suite VVIP"]})

NextPlacement ==
    \/ OpenAdmissionForm
    \/ handleKelasChange
    \/ handleRoomChange
    \/ SelectBed
    \/ handleSaveDraft
    \/ LeaveAdmissionForm
    \/ SubmitPlacement
    \/ AddSuite
    \/ ChangeRoomType

SpecPlacement == Init /\ [][NextPlacement]_vars


----------------------------------------------------------------------------
(* The persisted JSON form of a patient collection (lib/file-storage).     *)
(* A field value is [type, v]: a Date carries its time value in            *)
(* milliseconds, a string its text, undefined nothing.  An object is a     *)
(* function of its own keys, so an absent key and a key holding undefined  *)
(* are different objects, as `key in object` tells them apart.             *)

DateValue(ms) == [type |-> "Date", v |-> ms]

StringValue(text) == [type |-> "string", v |-> text]

UndefinedValue == [type |-> "undefined", v |-> 0]

\* Date.prototype.toISOString: the UTC fields of the time value, written as
\* <<day, hours, minutes, seconds, milliseconds>> (the calendar date is kept
\* as the day count)
toISOString(ms) ==
    <<ms \div MsPerDay, (ms % MsPerDay) \div MsPerHour,
      (ms % MsPerHour) \div 60000, (ms % 60000) \div 1000, ms % 1000>>

\* new Date(isoString)
NewDate(iso) ==
    DateValue(iso[1] * MsPerDay + iso[2] * MsPerHour + iso[3] * 60000
              + iso[4] * 1000 + iso[5])

\* JSON.stringify of one object: a key holding undefined is left out, a Date
\* is written as its ISO string (Date.prototype.toJSON)
StringifyObject(object) ==
    [k \in {key \in DOMAIN object : object[key].type # "undefined"} |->
        IF object[k].type = "Date" THEN StringValue(toISOString(object[k].v))
        ELSE object[k]]

serializePatients(collection) ==
    [i \in 1..Len(collection) |-> StringifyObject(collection[i])]

requiredDateFields ==
    {"tanggalLahir", "tanggalJamMasuk", "registrationDate", "createdAt", "updatedAt"}

optionalDateFields == {"tanggalSuratRujukan", "tanggalKeluar", "dateOfBirth"}

\* the object literal of deserializePatients: the spread of the parsed
\* object, then the eight date keys, each written whether or not the parsed
\* object has it
DeserializeObject(patient) ==
    Spread(patient,
           [k \in requiredDateFields \cup optionalDateFields |->
               IF k \in requiredDateFields THEN NewDate(patient[k].v)
               ELSE IF k \in DOMAIN patient THEN NewDate(patient[k].v)
               ELSE UndefinedValue])

deserializePatients(json) ==
    [i \in 1..Len(json) |-> DeserializeObject(json[i])]

\* instants with and without a fraction of a second, on two days
RoundTripInstants == {0, 999, MsPerDay + MsPerHour + 61001}

\* records that differ in the admission time and in which optional fields
\* they have; tanggalKeluar may also be present and undefined
RoundTripPool ==
    {Spread(Spread(Spread(Spread(base, rujukan), keluar), lahir), kartu) :
        base \in [id : {StringValue("p1")},
                  tanggalLahir : {DateValue(0)},
                  tanggalJamMasuk : {DateValue(t) : t \in RoundTripInstants},
                  registrationDate : {DateValue(999)},
                  createdAt : {DateValue(999)},
                  updatedAt : {DateValue(MsPerDay + MsPerHour + 61001)}],
        rujukan \in Optional("tanggalSuratRujukan", {DateValue(MsPerDay)}),
        keluar \in Optional("tanggalKeluar",
                            {DateValue(MsPerDay + 999), UndefinedValue}),
        lahir \in Optional("dateOfBirth", {DateValue(0)}),
        kartu \in Optional("nomorKartuPolis", {StringValue("0001")})}

RECURSIVE CollectionsOf(_, _)
CollectionsOf(pool, n) ==
    IF n = 0 THEN {<<>>}
    ELSE LET shorter == CollectionsOf(pool, n - 1)
         IN shorter \cup {Append(c, p) : c \in {x \in shorter : Len(x) = n - 1},
                                         p \in pool}

\* savePatients followed by loadPatients
RoundTrip ==
    \E collection \in CollectionsOf(RoundTripPool, MaxListed) :
        Queried("deserializePatients",
                deserializePatients(serializePatients(collection)), collection)

SpecRoundTrip == Init /\ [][RoundTrip]_vars


----------------------------------------------------------------------------
(* Attaching the referral document: the checks a file passes on its way    *)
(* into the record.  A File is [type, size], the size in megabytes.        *)

Files ==
    [type : {"application/pdf", "image/jpeg", "image/gif", "image/webp"},
     size : {MAX_FILE_SIZE, MAX_FILE_SIZE + 1}]

\* lib/file-storage validateRujukanFile: its allowedTypes, then the size
validateRujukanFile(file) ==
    /\ file.type \in {"application/pdf", "image/jpeg", "image/jpg", "image/png"}
    /\ ~(file.size > MAX_FILE_SIZE)

\* FileUpload.handleFile: the file is validated, nothing else changes in
\* the stores
HandleFile ==
    \E file \in Files :
        /\ Did("validateRujukanFile", NoId, validateRujukanFile(file), file)
        /\ UNCHANGED <<patientVars, roomVars>>

\* URL.createObjectURL(file)
createObjectURL(file) == <<"blob", file.type, file.size>>

\* ReferralSection.handleFileUpload: its own allowedTypes and maxSize; an
\* accepted file is put into the form as an object URL
handleFileUpload ==
    \E file \in Files :
        LET accepted ==
                /\ file.type \in {"image/jpeg", "image/jpg", "image/png", "image/gif",
                                  "application/pdf"}
                /\ ~(file.size > MAX_FILE_SIZE)
        IN /\ form' = IF accepted
                      THEN <<[fileSuratRujukan |-> createObjectURL(file)]>>
                      ELSE form
           /\ Ran("handleFileUpload", NoId, accepted, file)
           /\ UNCHANGED <<patientVars, roomVars, draft, storedFiles>>

\* saveFile called by itself: the size check, then the file is stored under a
\* new id
SaveFile ==
    \E file \in Files :
        /\ Cardinality(storedFiles) < MaxFiles
        /\ IF file.size > MAX_FILE_SIZE
           THEN /\ Ran("saveFile", NoId, FALSE, file)
                /\ UNCHANGED storedFiles
           ELSE /\ Ran("saveFile", NewFileId(storedFiles), TRUE, file)
                /\ storedFiles' = storedFiles \cup {NewFileId(storedFiles)}
        /\ UNCHANGED <<patientVars, roomVars, form, draft>>

\* AdmissionForm.onSubmit on the create route: addPatient(values), the
\* values being those of the form, and no file
AddPatientFromForm ==
    /\ form # <<>>
    /\ AddPatientCall({Spread(d, form[1]) : d \in FileFormData})

NextAttach ==
    \/ HandleFile
    \/ handleFileUpload
    \/ SaveFile
    \/ AddPatientFromForm

SpecAttach == Init /\ [][NextAttach]_vars


\* the five patient operations around a load that may be pending, one session
NextDischarge ==
    \/ AddPatientPlain
    \/ UpdatePatientPlain
    \/ StoreDeletePatient
    \/ StoreDischargePatient
    \/ StoreLoadMockData
    \/ StoreLoadResolved
    \/ StoreLoadRejected

SpecDischarge == Init /\ [][NextDischarge]_vars


\* updatePatient with and without a referral file, on ids that are known,
\* unknown, or deleted while the file is being saved
NextUnknownId ==
    \/ addPatientWithFile
    \/ updatePatientWithFile
    \/ UpdatePatientPlain
    \/ StoreDeletePatient
    \/ saveFileResolved
    \/ saveFileRejected

SpecUnknownId == Init /\ [][NextUnknownId]_vars


\* an admission time change, on loaded and on user-added records
UpdatePatientTime == UpdatePatientCall({[tanggalJamMasuk |-> Now]})

\* the operations that write patients, with admission times that differ
NextOrdered ==
    \/ StoreAddPatient
    \/ UpdatePatientTime
    \/ StoreDischargePatient
    \/ StoreDeletePatient
    \/ StoreLoadMockData
    \/ StoreLoadResolved
    \/ StoreLoadRejected

SpecOrdered == Init /\ [][NextOrdered]_vars


\* loadMockData called while it returns at once: a load is pending, or the
\* list is loaded and not empty
StoreLoadMockDataSkipped ==
    /\ isLoading \/ (isLoaded /\ Len(patients) > 0)
    /\ UNCHANGED patientVars
    /\ Did("loadMockData", NoId, "skipped", 0)
    /\ UNCHANGED roomVars

\* the loads of the two stores, called at any time, between additions and
\* deletions
NextLoad ==
    \/ StoreLoadMockData
    \/ StoreLoadMockDataSkipped
    \/ StoreLoadResolved
    \/ StoreLoadRejected
    \/ AddPatientPlain
    \/ StoreDeletePatient
    \/ StoreLoadMockRooms
    \/ StoreLoadRoomsResolved
    \/ StoreLoadRoomsRejected
    \/ AddRoomPlain

\* a fetch that was started settles: it resolves or it rejects
SpecLoadFair ==
    /\ Init
    /\ [][NextLoad]_vars
    /\ WF_vars(StoreLoadResolved \/ StoreLoadRejected)
    /\ WF_vars(StoreLoadRoomsResolved \/ StoreLoadRoomsRejected)

\* C16: a delete of a patient whose status is 'Aktif', from the store or from
\* the confirmation dialog, is refused: the patient stays in the store.
C16_ActivePatientNotDeleted ==
    [][(/\ last'.op \in {"deletePatient", "handleConfirm"}
        /\ \E p \in Range(patients) : p.id = last'.id /\ p.status = "Aktif")
       => \E p \in Range(patients') : p.id = last'.id]_vars

\* the calendar day of a Date
DayOf(date) == date \div MsPerDay

\* C17: filterPatients returns, in store order, exactly the patients that
\* meet every supplied criterion: the status, membership in a non-empty class
\* list, membership in a non-empty payment list, and an admission day from
\* the start day to the end day, both included.
C17_FilterIsConjunction ==
    last.op = "filterPatients" =>
        LET c == last.aux
            Meets(p) ==
                /\ "status" \in DOMAIN c => p.status = c.status
                /\ ("kelasPerawatan" \in DOMAIN c /\ c.kelasPerawatan # <<>>)
                       => \E i \in DOMAIN c.kelasPerawatan :
                              c.kelasPerawatan[i] = p.kelasPerawatan
                /\ ("caraBayar" \in DOMAIN c /\ c.caraBayar # <<>>)
                       => \E i \in DOMAIN c.caraBayar : c.caraBayar[i] = p.caraBayar
                /\ "tanggalMasukStart" \in DOMAIN c
                       => DayOf(p.tanggalJamMasuk) >= DayOf(c.tanggalMasukStart)
                /\ "tanggalMasukEnd" \in DOMAIN c
                       => DayOf(p.tanggalJamMasuk) <= DayOf(c.tanggalMasukEnd)
            kept == {i \in 1..Len(patients) : Meets(patients[i])}
        IN /\ Len(last.ret) = Cardinality(kept)
           /\ \A i \in kept :
                  last.ret[Cardinality({j \in kept : j <= i})] = patients[i]

\* every criterion is supplied, the range starts late on a day and ends early
\* on a day; a patient admitted early on the start day is kept, another
\* patient is dropped
C17_FilteredByEveryCriterion ==
    /\ last.op = "filterPatients"
    /\ DOMAIN last.aux = {"status", "kelasPerawatan", "caraBayar",
                          "tanggalMasukStart", "tanggalMasukEnd"}
    /\ last.aux.kelasPerawatan # <<>>
    /\ last.aux.tanggalMasukStart % MsPerDay = EndOfDayMs
    /\ last.aux.tanggalMasukEnd % MsPerDay = 0
    /\ Len(patients) = MaxListed
    /\ Len(last.ret) = 1
    /\ last.ret[1].tanggalJamMasuk = StartOfDay(last.aux.tanggalMasukStart)

\* the trimmed query occurs, case ignored, somewhere in one of fields of p
FoundIn(p, fields, query) ==
    \E f \in fields \cap DOMAIN p :
        \E from \in 1..Len(p[f]) :
            /\ from + Len(trim(query)) - 1 <= Len(p[f])
            /\ \A k \in 1..Len(trim(query)) :
                   toLowerCase(p[f])[from + k - 1] = toLowerCase(trim(query))[k]

\* the result of the last search is the store-order list of the patients
\* found through fields, or every patient when the query is blank
SearchedOver(fields) ==
    last.op = "searchPatients" =>
        LET kept == {i \in 1..Len(patients) :
                        \/ trim(last.aux) = <<>>
                        \/ FoundIn(patients[i], fields, last.aux)}
        IN /\ Len(last.ret) = Cardinality(kept)
           /\ \A i \in kept :
                  last.ret[Cardinality({j \in kept : j <= i})] = patients[i]

\* C18 as stated: searchPatients returns exactly the patients in which the
\* trimmed query is a case-insensitive substring of namaLengkap, nik, noRM,
\* noHandphone or nomorRegistrasi, and every patient for a blank query.
C18_SearchOverFiveFields ==
    SearchedOver({"namaLengkap", "nik", "noRM", "noHandphone", "nomorRegistrasi"})

\* C18 amended: searchPatients returns exactly the patients in which the
\* trimmed query is a case-insensitive substring of namaLengkap, nik, noRM,
\* noHandphone, nomorRegistrasi or of the legacy fields name and phoneNumber,
\* and every patient for a blank query.
C18_SearchOverLegacyFieldsToo ==
    SearchedOver({"namaLengkap", "nik", "noRM", "noHandphone", "nomorRegistrasi",
                  "name", "phoneNumber"})

\* a query padded with a blank, in capitals, found inside (not at the start
\* of) namaLengkap of one patient and not found in the other
C18_FoundInsideName ==
    /\ last.op = "searchPatients"
    /\ last.aux = <<" ", "A">>
    /\ Len(patients) = MaxListed
    /\ Len(last.ret) = 1
    /\ last.ret[1].namaLengkap = <<"x", "A">>

\* C19: getAdmissionTrend(days) returns exactly days entries, one per
\* calendar day with no day repeated or skipped, in ascending date order,
\* with count 0 for a day on which no patient was admitted.
C19_OneEntryPerDay ==
    last.op = "getAdmissionTrend" =>
        /\ Len(last.ret) = last.aux.days
        /\ \A i \in 1..(Len(last.ret) - 1) :
               last.ret[i + 1].date = last.ret[i].date + 1
        /\ \A i \in 1..Len(last.ret) :
               (\A j \in 1..Len(patients) :
                    toISODate(patients[j].tanggalJamMasuk) # last.ret[i].date)
                   => last.ret[i].count = 0

\* C20: getBedOccupancyByClass returns one entry for each of VVIP, VIP,
\* Kelas 1, Kelas 2, Kelas 3 and ICU; occupied is the number of patients of
\* the class with status 'Aktif'; total is the larger of occupied and the
\* least integer not below 1.5 * occupied, or 10 when occupied is 0;
\* percentage is the integer nearest to 100 * occupied / total (a half goes
\* up), lies in 0..100, and occupied <= total.
C20_OccupancyPerClass ==
    last.op = "getBedOccupancyByClass" =>
        /\ Len(last.ret) = 6
        /\ {last.ret[c].kelas : c \in 1..Len(last.ret)} =
               {"VVIP", "VIP", "Kelas 1", "Kelas 2", "Kelas 3", "ICU"}
        /\ \A c \in 1..Len(last.ret) :
               LET e == last.ret[c]
                   active == {i \in 1..Len(patients) :
                                 /\ patients[i].kelasPerawatan = e.kelas
                                 /\ patients[i].status = "Aktif"}
               IN /\ e.occupied = Cardinality(active)
                  /\ e.occupied = 0 => e.total = 10
                  /\ e.occupied > 0 =>
                         /\ e.total >= e.occupied
                         /\ 2 * e.total >= 3 * e.occupied
                         /\ 2 * (e.total - 1) < 3 * e.occupied
                  /\ 2 * e.percentage * e.total > 200 * e.occupied - e.total
                  /\ 2 * e.percentage * e.total <= 200 * e.occupied + e.total
                  /\ e.percentage \in 0..100
                  /\ e.occupied <= e.total

\* three active VIP patients and a discharged one: 3 of 5 beds, 60 percent,
\* and 10 beds, 0 percent for a class without patients
C20_ThreeOfFiveBeds ==
    /\ last.op = "getBedOccupancyByClass"
    /\ \E i \in 1..Len(patients) :
           patients[i].status = "Keluar" /\ patients[i].kelasPerawatan = "VIP"
    /\ last.ret[2] = [kelas |-> "VIP", total |-> 5, occupied |-> 3, percentage |-> 60]
    /\ last.ret[1] = [kelas |-> "VVIP", total |-> 10, occupied |-> 0, percentage |-> 0]

\* C21: a form with valid fields is accepted exactly when a 'Rujukan Luar'
\* admission carries all four referral fields, a payment other than
\* 'Umum-Pribadi' carries a card number and a BPJS payment carries
\* kelasHakRawat; a BPJS form without kelasHakRawat has an error on
\* kelasHakRawat and a non-self-pay form without a card number has an error
\* on nomorKartuPolis.
C21_CrossFieldRules ==
    last.op = "admissionSchema" =>
        LET d == last.aux
            Present(f) == f \in DOMAIN d
            Given(f) == f \in DOMAIN d /\ d[f] # <<>>
        IN /\ last.ret = {} <=>
                  /\ d.caraMasuk = "Rujukan Luar" =>
                         /\ Present("asalRujukan")
                         /\ Given("namaFaskesPerujuk")
                         /\ Given("nomorSuratRujukan")
                         /\ Present("tanggalSuratRujukan")
                  /\ d.caraBayar # "Umum-Pribadi" => Given("nomorKartuPolis")
                  /\ d.caraBayar = "BPJS Kesehatan" => Present("kelasHakRawat")
           /\ (d.caraBayar = "BPJS Kesehatan" /\ ~Present("kelasHakRawat"))
                  => "kelasHakRawat" \in last.ret
           /\ (d.caraBayar # "Umum-Pribadi" /\ ~Given("nomorKartuPolis"))
                  => "nomorKartuPolis" \in last.ret

\* a BPJS form with a card number and without kelasHakRawat was rejected on
\* kelasHakRawat alone
C21_BpjsWithoutKelasHakRawat ==
    /\ last.op = "admissionSchema"
    /\ last.aux.caraBayar = "BPJS Kesehatan"
    /\ "kelasHakRawat" \notin DOMAIN last.aux
    /\ last.ret = {"kelasHakRawat"}

\* C22: with no room of a VVIP type in the room store, a submit of the
\* admission form with kelasPerawatan 'VVIP' is not accepted; it fails with
\* an error on namaRuangan and/or nomorBed, no patient is added and no room
\* changes.
C22_NoVvipRoomNoAdmission ==
    [][(/\ form # <<>>
        /\ form[1].kelasPerawatan = "VVIP"
        /\ \A i \in 1..Len(rooms) :
               rooms[i].roomType \notin KELAS_TO_ROOM_TYPE_MAP("VVIP")
        /\ last'.op \in {"handleSubmit", "onSubmit"})
       => /\ last'.ret \in {"schema", "bed"}
          /\ patients' = patients
          /\ rooms' = rooms]_vars


\* C23: deserializePatients(serializePatients(c)) gives, record by record,
\* the same time value for every date field, the same value for every other
\* field, and the same set of fields: a field absent in the input record is
\* absent in the output record, not present with null or undefined.
C23_RoundTripKeepsFieldSets ==
    last.op = "deserializePatients" =>
        /\ Len(last.ret) = Len(last.aux)
        /\ \A i \in 1..Len(last.aux) :
               /\ DOMAIN last.ret[i] = DOMAIN last.aux[i]
               /\ \A k \in DOMAIN last.aux[i] :
                      /\ last.ret[i][k].type = last.aux[i][k].type
                      /\ last.ret[i][k].v = last.aux[i][k].v


\* C24: a referral document is accepted exactly when its type is PDF, JPEG,
\* PNG or GIF and its size is at most MAX_FILE_SIZE; validateRujukanFile and
\* saveFile draw the size limit at the same place; and a record's
\* fileSuratRujukan is the generated id of a stored file, nothing else.
C24_AcceptedFilesAndStoredIds ==
    /\ last.op \in {"validateRujukanFile", "handleFileUpload"} =>
           (last.ret <=>
               /\ last.aux.type \in {"application/pdf", "image/jpeg", "image/jpg",
                                     "image/png", "image/gif"}
               /\ last.aux.size <= MAX_FILE_SIZE)
    /\ last.op = "saveFile" => (last.ret <=> last.aux.size <= MAX_FILE_SIZE)
    /\ \A i \in 1..Len(patients) :
           "fileSuratRujukan" \in DOMAIN patients[i] =>
               patients[i].fileSuratRujukan \in storedFiles


\* C25: discharge is permanent: a record that has status 'Keluar' in patients
\* has status 'Keluar' in patients after every step that keeps a record of
\* its id, whichever of addPatient, updatePatient, deletePatient,
\* dischargePatient and loadMockData (its start, its success, its failure)
\* the step is.
C25_DischargeIsPermanent ==
    [][\A i \in 1..Len(patients) :
           patients[i].status = "Keluar" =>
               \A j \in 1..Len(patients') :
                   patients'[j].id = patients[i].id => patients'[j].status = "Keluar"]_vars


\* C26: bed occupancy survives a page reload: whenever both stores have
\* completed their load, every 'Aktif' patient that was admitted through the
\* form, in this session or in an earlier one, has a room whose roomNumber is
\* the patient's nomorBed and whose status is 'Terisi', the room being a mock
\* room or a user-added one.
C26_OccupancySurvivesReload ==
    (isLoaded /\ ~isLoading /\ roomsIsLoaded /\ ~roomsIsLoading) =>
        \A i \in 1..Len(patients) :
            (patients[i].id[1] = "gen" /\ patients[i].status = "Aktif") =>
                \E j \in 1..Len(rooms) :
                    /\ rooms[j].roomNumber = patients[i].nomorBed
                    /\ rooms[j].status = "Terisi"


\* C27: an updatePatient call that returns null (no record has the id when
\* set(...) runs) leaves patients, userAddedPatients and the set of stored
\* referral files as they were, with or without a new file, the id being
\* unknown from the start or deleted while the file was being saved.
C27_UnknownIdChangesNothing ==
    [][(last'.op = "updatePatient" /\ last'.ret = "null") =>
           /\ patients' = patients
           /\ userAddedPatients' = userAddedPatients
           /\ storedFiles' = storedFiles]_vars


\* C28: patients is ordered by tanggalJamMasuk, newest first, in every state:
\* after loadMockData (resolved or fallen back), addPatient, updatePatient,
\* dischargePatient and deletePatient.
C28_PatientsNewestFirst ==
    \A i \in 1..Len(patients), j \in 1..Len(patients) :
        i < j => patients[i].tanggalJamMasuk >= patients[j].tanggalJamMasuk


\* C29: at most one fetchMockPatients is pending at any time; a loadMockData
\* call made while isLoading starts none; a load that resolves leaves in
\* patients every mock record and every user-added record exactly once; and
\* in either store a load that has started leads to isLoading = false and
\* isLoaded = true, the fetch resolving or rejecting.
C29_LoadsTerminateOneAtATime ==
    /\ [](Cardinality(PendingFetches) <= 1)
    /\ [][(isLoading /\ last'.op = "loadMockData" /\ last'.ret # "resolved"
              /\ last'.ret # "rejected") =>
              inflight' = inflight]_vars
    /\ [][(last'.op = "loadMockData" /\ last'.ret = "resolved") =>
              \A id \in {p.id : p \in Range(MockPatients)}
                        \cup {p.id : p \in Range(userAddedPatients)} :
                  Cardinality({i \in 1..Len(patients') : patients'[i].id = id}) = 1]_vars
    /\ isLoading ~> (~isLoading /\ isLoaded)
    /\ roomsIsLoading ~> (~roomsIsLoading /\ roomsIsLoaded)

\* a load has resolved while the store held a user-added record
C29_ResolvedWithUserAdded ==
    /\ last.op = "loadMockData"
    /\ last.ret = "resolved"
    /\ userAddedPatients # <<>>
    /\ ~isLoading
    /\ isLoaded


\* the sum of f over the finite set s
RECURSIVE SumOver(_, _)
SumOver(s, f) ==
    IF s = {} THEN 0
    ELSE LET x == CHOOSE y \in s : TRUE
         IN f[x] + SumOver(s \ {x}, f)

\* C30: getAdmissionTrend(days) loses no admission: the counts of the
\* returned entries add up to the number of patients admitted at or after
\* the start of the range and no later than the current day, and in each
\* entry count is the sum of the byCaraMasuk values.
C30_NoAdmissionLost ==
    last.op = "getAdmissionTrend" =>
        LET zone == last.aux.zone
            today == LocalDay(last.aux.now, zone)
            startDate == LocalMidnight(today - last.aux.days, zone)
            inRange == {j \in 1..Len(patients) :
                           /\ patients[j].tanggalJamMasuk >= startDate
                           /\ LocalDay(patients[j].tanggalJamMasuk, zone) <= today}
        IN /\ SumOver(1..Len(last.ret), [i \in 1..Len(last.ret) |-> last.ret[i].count])
                  = Cardinality(inRange)
           /\ \A i \in 1..Len(last.ret) :
                  last.ret[i].count
                      = SumOver(DOMAIN last.ret[i].byCaraMasuk, last.ret[i].byCaraMasuk)

====
